---------------------------- MODULE Spec2Model ----------------------------
(***************************************************************************)
(* A model of the square-foot pro forma of developer/sqftproforma.py:      *)
(* the reference table built at construction (SqFtProFormaReference) and   *)
(* the feasibility lookup (SqFtProForma.lookup) that reads it.             *)
(*                                                                         *)
(* Numbers.  The program computes with IEEE floats, including nan and      *)
(* +-inf.  The model computes with exact rationals <<n, d>> (d > 0, lowest *)
(* terms) and the three special values <<0,0>> (nan), <<1,0>> (+inf) and   *)
(* <<-1,0>> (-inf), with numpy's rules for them: nan propagates through    *)
(* arithmetic, every comparison with nan is false, x/0 is +-inf or nan.    *)
(* Float rounding is not modelled.                                         *)
(***************************************************************************)
EXTENDS Integers, Sequences, FiniteSets, TLC

NaN  == <<0, 0>>
Inf  == <<1, 0>>
NInf == <<-1, 0>>

Abs(a) == IF a < 0 THEN -a ELSE a

RECURSIVE GCD(_, _)
GCD(a, b) == IF b = 0 THEN a ELSE GCD(b, a % b)

\* the rational n/d (d > 0) in lowest terms
Rat(n, d) == LET g == GCD(Abs(n), d) IN <<n \div g, d \div g>>

\* the integer n as a number of the model
I(n) == <<n, 1>>

IsNaN(x)    == x = NaN
IsFinite(x) == x[2] > 0
Sgn(x)      == IF x[1] > 0 THEN 1 ELSE IF x[1] < 0 THEN -1 ELSE 0

Neg(x) == <<-x[1], x[2]>>

Add(x, y) ==
    IF IsNaN(x) \/ IsNaN(y) THEN NaN
    ELSE IF ~IsFinite(x) /\ ~IsFinite(y) THEN (IF x = y THEN x ELSE NaN)
    ELSE IF ~IsFinite(x) THEN x
    ELSE IF ~IsFinite(y) THEN y
    ELSE LET g == GCD(x[2], y[2])
         IN  Rat(x[1] * (y[2] \div g) + y[1] * (x[2] \div g),
                 (x[2] \div g) * y[2])

Sub(x, y) == Add(x, Neg(y))

Mul(x, y) ==
    IF IsNaN(x) \/ IsNaN(y) THEN NaN
    ELSE IF ~IsFinite(x) \/ ~IsFinite(y)
         THEN (IF Sgn(x) * Sgn(y) = 0 THEN NaN
               ELSE <<Sgn(x) * Sgn(y), 0>>)
    ELSE LET g1 == GCD(Abs(x[1]), y[2])
             g2 == GCD(Abs(y[1]), x[2])
         IN  Rat((x[1] \div g1) * (y[1] \div g2),
                 (x[2] \div g2) * (y[2] \div g1))

\* float division: x/0 is +-inf (nan for 0/0), x/inf is 0, inf/inf is nan
Div(x, y) ==
    IF IsNaN(x) \/ IsNaN(y) THEN NaN
    ELSE IF ~IsFinite(y)
         THEN (IF IsFinite(x) THEN I(0) ELSE NaN)
    ELSE IF y[1] = 0
         THEN (IF Sgn(x) = 0 THEN NaN ELSE <<Sgn(x), 0>>)
    ELSE Mul(x, <<Sgn(y) * y[2], Abs(y[1])>>)

\* x < y as floats compare: false as soon as one side is nan
Lt(x, y) ==
    IF IsNaN(x) \/ IsNaN(y) THEN FALSE
    ELSE IF IsFinite(x) /\ IsFinite(y)
         THEN IF Sgn(x) # Sgn(y) THEN Sgn(x) < Sgn(y)
              ELSE IF x[1] \div x[2] # y[1] \div y[2]
                   THEN x[1] \div x[2] < y[1] \div y[2]
              ELSE LET g == GCD(x[2], y[2])
                   IN  (x[1] % x[2]) * (y[2] \div g) < (y[1] % y[2]) * (x[2] \div g)
    ELSE IF ~IsFinite(x) /\ ~IsFinite(y) THEN x[1] < y[1]
    ELSE IF IsFinite(x) THEN y = Inf
    ELSE x = NInf

Gt(x, y) == Lt(y, x)
Le(x, y) == ~IsNaN(x) /\ ~IsNaN(y) /\ ~Lt(y, x)
Ge(x, y) == Le(y, x)

\* np.ceil
Ceil(x) == IF IsFinite(x) THEN I(-((-x[1]) \div x[2])) ELSE x


(***************************************************************************)
(* Arrays.  A one-dimensional ndarray or Series is a sequence of numbers.  *)
(***************************************************************************)
RECURSIVE SumSeq(_)
SumSeq(s) == IF s = <<>> THEN I(0) ELSE Add(SumSeq(SubSeq(s, 1, Len(s) - 1)), s[Len(s)])

\* np.dot of two vectors, np.sum(a * b)
Dot(a, b) == SumSeq([i \in 1..Len(a) |-> Mul(a[i], b[i])])

\* np.searchsorted(a, v), side='left', as a 0-based index; nan sorts last
SearchSorted(a, v) ==
    IF IsNaN(v) THEN Len(a)
    ELSE Cardinality({i \in 1..Len(a) : Lt(a[i], v)})

(***************************************************************************)
(* The parameter bundle of the model: the shape of get_defaults(), with    *)
(* two uses, three forms and a four-point far grid.  The grid holds a far  *)
(* as small as the zoning tolerance (0.01), which is inside the validated  *)
(* range (0, 20].                                                          *)
(***************************************************************************)
Bundle ==
    [ parcel_sizes |-> <<I(10000)>>,
      fars |-> <<Rat(1, 100), Rat(1, 2), I(1), I(2)>>,
      uses |-> <<"retail", "residential">>,
      residential_uses |-> <<FALSE, TRUE>>,
      forms |-> [ f \in {"mixedresidential", "residential", "retail"} |->
                    CASE f = "mixedresidential" ->
                           \* fractions that are not normalized
                           [u \in {"residential", "retail"} |->
                              IF u = "residential" THEN I(1) ELSE I(1)]
                      [] f = "residential" -> [u \in {"residential"} |-> I(1)]
                      [] f = "retail" -> [u \in {"retail"} |-> I(1)] ],
      profit_factor |-> Rat(11, 10),
      building_efficiency |-> Rat(7, 10),
      parcel_coverage |-> Rat(4, 5),
      cap_rate |-> Rat(1, 20),
      parking_rates |-> [u \in {"retail", "residential"} |->
                           IF u = "retail" THEN I(2) ELSE I(1)],
      sqft_per_rate |-> I(1000),
      parking_configs |-> <<"surface", "deck", "underground">>,
      costs |-> [u \in {"retail", "residential"} |->
                   IF u = "retail" THEN <<I(160), I(175), I(200)>>
                   ELSE <<I(170), I(190), I(210)>>],
      heights_for_costs |-> <<I(15), I(55), Inf>>,
      parking_sqft_d |-> [c \in {"surface", "deck", "underground"} |->
                            IF c = "surface" THEN I(300) ELSE I(250)],
      parking_cost_d |-> [c \in {"surface", "deck", "underground"} |->
                            CASE c = "surface" -> I(30)
                              [] c = "deck" -> I(90)
                              [] c = "underground" -> I(110)],
      height_per_story |-> I(12),
      max_retail_height |-> I(2),
      max_industrial_height |-> I(2),
      construction_months |-> [u \in {"retail", "residential"} |->
                                 <<I(10), I(20), I(30)>>],
      construction_sqft_for_months |-> <<I(10000), I(20000), Inf>>,
      loan_to_cost_ratio |-> Rat(1, 2),
      drawdown_factor |-> Rat(1, 2),
      interest_rate |-> Rat(3, 25),
      loan_fees |-> Rat(1, 20) ]

\* a record with the fields of r and those of extra
With(r, extra) ==
    [k \in (DOMAIN r \cup DOMAIN extra) |-> IF k \in DOMAIN extra THEN extra[k] ELSE r[k]]

(***************************************************************************)
(* SqFtProForma.get_defaults: the bundle of default values (the options    *)
(* only_built and simple_zoning are arguments of the constructor here).    *)
(***************************************************************************)
DefaultUses == {"retail", "industrial", "office", "residential"}

get_defaults ==
    [ parcel_sizes |-> <<I(10000)>>,
      fars |-> << Rat(1, 10), Rat(1, 4), Rat(1, 2), Rat(3, 4), I(1), Rat(3, 2),
                  Rat(9, 5), I(2), Rat(9, 4), Rat(5, 2), Rat(11, 4), I(3),
                  Rat(13, 4), Rat(7, 2), Rat(15, 4), I(4), Rat(9, 2), I(5),
                  Rat(11, 2), I(6), Rat(13, 2), I(7), I(9), I(11) >>,
      uses |-> <<"retail", "industrial", "office", "residential">>,
      residential_uses |-> <<FALSE, FALSE, FALSE, TRUE>>,
      forms |-> [ f \in {"industrial", "mixedoffice", "mixedresidential",
                         "office", "residential", "retail"} |->
                    CASE f = "industrial" -> [u \in {"industrial"} |-> I(1)]
                      [] f = "mixedoffice" ->
                           [u \in {"office", "residential"} |->
                              IF u = "office" THEN Rat(7, 10) ELSE Rat(3, 10)]
                      [] f = "mixedresidential" ->
                           [u \in {"residential", "retail"} |->
                              IF u = "residential" THEN Rat(9, 10) ELSE Rat(1, 10)]
                      [] f = "office" -> [u \in {"office"} |-> I(1)]
                      [] f = "residential" -> [u \in {"residential"} |-> I(1)]
                      [] f = "retail" -> [u \in {"retail"} |-> I(1)] ],
      profit_factor |-> Rat(11, 10),
      building_efficiency |-> Rat(7, 10),
      parcel_coverage |-> Rat(4, 5),
      cap_rate |-> Rat(1, 20),
      parking_rates |-> [u \in DefaultUses |->
                           CASE u = "industrial" -> Rat(3, 5)
                             [] u = "office" -> I(1)
                             [] u = "residential" -> I(1)
                             [] u = "retail" -> I(2)],
      sqft_per_rate |-> I(1000),
      parking_configs |-> <<"surface", "deck", "underground">>,
      costs |-> [u \in DefaultUses |->
                   CASE u = "industrial" -> <<I(140), I(175), I(200), I(230)>>
                     [] u = "office" -> <<I(160), I(175), I(200), I(230)>>
                     [] u = "residential" -> <<I(170), I(190), I(210), I(240)>>
                     [] u = "retail" -> <<I(160), I(175), I(200), I(230)>>],
      heights_for_costs |-> <<I(15), I(55), I(120), Inf>>,
      parking_sqft_d |-> [c \in {"surface", "deck", "underground"} |->
                            IF c = "surface" THEN I(300) ELSE I(250)],
      parking_cost_d |-> [c \in {"surface", "deck", "underground"} |->
                            CASE c = "surface" -> I(30)
                              [] c = "deck" -> I(90)
                              [] c = "underground" -> I(110)],
      height_per_story |-> I(12),
      max_retail_height |-> I(2),
      max_industrial_height |-> I(2),
      construction_months |-> [u \in DefaultUses |->
                                 <<I(12), I(14), I(18), I(24)>>],
      construction_sqft_for_months |-> <<I(10000), I(20000), I(50000), Inf>>,
      loan_to_cost_ratio |-> Rat(7, 10),
      drawdown_factor |-> Rat(3, 5),
      interest_rate |-> Rat(1, 20),
      loan_fees |-> Rat(1, 50),
      residential_to_yearly |-> TRUE,
      parcel_filter |-> "None",
      only_built |-> TRUE,
      forms_to_test |-> <<"industrial", "mixedoffice", "mixedresidential",
                          "office", "residential", "retail">>,
      pass_through |-> <<>>,
      simple_zoning |-> FALSE ]

(***************************************************************************)
(* SqFtProForma._convert_types: the use-keyed dictionaries become arrays   *)
(* in the order of uses, every form is normalized to sum to 1, and the     *)
(* residential ratio of a form is the sum over the residential uses.       *)
(***************************************************************************)
Range(s) == {s[i] : i \in 1..Len(s)}

\* mutant of _convert_types: the forms are not normalized
_convert_types_unnormalized(b) ==
    LET nu == Len(b.uses)
        raw(k) == [i \in 1..nu |->
                     IF b.uses[i] \in DOMAIN b.forms[k]
                     THEN b.forms[k][b.uses[i]] ELSE I(0)]
    IN  [ fars |-> b.fars,
          parking_rates |-> [i \in 1..nu |-> b.parking_rates[b.uses[i]]],
          forms |-> [k \in DOMAIN b.forms |-> raw(k)],
          res_ratios |-> [k \in DOMAIN b.forms |->
                            SumSeq([i \in 1..nu |->
                                      IF b.residential_uses[i]
                                      THEN raw(k)[i] ELSE I(0)])],
          costs |-> [h \in 1..Len(b.heights_for_costs) |->
                       [i \in 1..nu |-> b.costs[b.uses[i]][h]]],
          construction_months |->
              [h \in 1..Len(b.construction_sqft_for_months) |->
                 [i \in 1..nu |-> b.construction_months[b.uses[i]][h]]] ]

_convert_types(b) ==
    LET nu == Len(b.uses)
        raw(k) == [i \in 1..nu |->
                     IF b.uses[i] \in DOMAIN b.forms[k]
                     THEN b.forms[k][b.uses[i]] ELSE I(0)]
        norm(k) == [i \in 1..nu |-> Div(raw(k)[i], SumSeq(raw(k)))]
    IN  [ fars |-> b.fars,
          parking_rates |-> [i \in 1..nu |-> b.parking_rates[b.uses[i]]],
          forms |-> [k \in DOMAIN b.forms |-> norm(k)],
          res_ratios |-> [k \in DOMAIN b.forms |->
                            SumSeq([i \in 1..nu |->
                                      IF b.residential_uses[i]
                                      THEN norm(k)[i] ELSE I(0)])],
          \* np.transpose: rows are breakpoints, columns are uses
          costs |-> [h \in 1..Len(b.heights_for_costs) |->
                       [i \in 1..nu |-> b.costs[b.uses[i]][h]]],
          construction_months |->
              [h \in 1..Len(b.construction_sqft_for_months) |->
                 [i \in 1..nu |-> b.construction_months[b.uses[i]][h]]] ]

(***************************************************************************)
(* SqFtProFormaReference: one table per (form, parking configuration),     *)
(* one row per far of the grid.  self is the object's __dict__.            *)
(***************************************************************************)
\* np.repeat(self.parcel_sizes, self.fars.size)
tiled_parcel_sizes(self) ==
    [i \in 1..(Len(self.parcel_sizes) * Len(self.fars)) |->
        self.parcel_sizes[((i - 1) \div Len(self.fars)) + 1]]

\* np.sum(uses_distrib * self.parking_rates)
weighted_parking_rate(self, uses_distrib) == Dot(uses_distrib, self.parking_rates)

\* mutant of _building_bulk: the bulk of deck parking is not reduced by the
\* parking it holds
_building_bulk_whole_far(self, uses_distrib, parking_config) ==
    [i \in 1..Len(self.fars) |-> Mul(self.parcel_sizes[1], self.fars[i])]

_building_bulk(self, uses_distrib, parking_config) ==
    [i \in 1..Len(self.fars) |->
        LET bulk == Mul(self.parcel_sizes[1], self.fars[i])
        IN  IF parking_config = "deck"
            THEN Div(bulk,
                     Add(I(1),
                         Div(Mul(weighted_parking_rate(self, uses_distrib),
                                 self.parking_sqft_d[parking_config]),
                             self.sqft_per_rate)))
            ELSE bulk]

_park_sqft(self, parking_config, parking_stalls) ==
    [i \in 1..Len(parking_stalls) |->
        IF parking_config \in {"underground", "deck"}
        THEN Mul(parking_stalls[i], self.parking_sqft_d[parking_config])
        ELSE I(0)]

\* mutant of _stories: the five-story test of surface parking comes after the
\* division by parcel_coverage
_stories_test_after_coverage(self, parking_config, building_bulk, parking_stalls) ==
    [i \in 1..Len(building_bulk) |->
        LET pcl == tiled_parcel_sizes(self)[i]
            park == Mul(parking_stalls[i], self.parking_sqft_d[parking_config])
        IN  CASE parking_config = "underground" ->
                   Div(Div(building_bulk[i], pcl), self.parcel_coverage)
              [] parking_config = "deck" ->
                   Div(Div(Add(building_bulk[i], park), pcl), self.parcel_coverage)
              [] parking_config = "surface" ->
                   LET s == Div(Div(building_bulk[i], Sub(pcl, park)),
                                self.parcel_coverage)
                   IN  IF Lt(s, I(0)) \/ Gt(s, I(5)) THEN NaN ELSE s]

_stories(self, parking_config, building_bulk, parking_stalls) ==
    [i \in 1..Len(building_bulk) |->
        LET pcl == tiled_parcel_sizes(self)[i]
            park == Mul(parking_stalls[i], self.parking_sqft_d[parking_config])
            raw == CASE parking_config = "underground" ->
                          Div(building_bulk[i], pcl)
                     [] parking_config = "deck" ->
                          Div(Add(building_bulk[i], park), pcl)
                     [] parking_config = "surface" ->
                          LET s == Div(building_bulk[i], Sub(pcl, park))
                          IN  IF Lt(s, I(0)) \/ Gt(s, I(5)) THEN NaN ELSE s
        IN  Div(raw, self.parcel_coverage)]

\* mutant of _building_cost: the brackets are read from the tallest down
_building_cost_brackets_reversed(self, use_mix, stories) ==
    [i \in 1..Len(stories) |->
        LET heights == Mul(stories[i], self.height_per_story)
            idx == IF IsNaN(heights) THEN 0
                   ELSE SearchSorted(self.heights_for_costs, heights)
        IN  IF IsNaN(stories[i]) THEN NaN
            ELSE Dot(self.costs[Len(self.costs) - idx], use_mix)]

\* mutant of _building_cost: the costs of the uses are added, not weighted
_building_cost_unweighted(self, use_mix, stories) ==
    [i \in 1..Len(stories) |->
        LET heights == Mul(stories[i], self.height_per_story)
            idx == IF IsNaN(heights) THEN 0
                   ELSE SearchSorted(self.heights_for_costs, heights)
        IN  IF IsNaN(stories[i]) THEN NaN
            ELSE SumSeq(self.costs[idx + 1])]

_building_cost(self, use_mix, stories) ==
    [i \in 1..Len(stories) |->
        LET heights == Mul(stories[i], self.height_per_story)
            idx == IF IsNaN(heights) THEN 0
                   ELSE SearchSorted(self.heights_for_costs, heights)
        IN  IF IsNaN(stories[i]) THEN NaN
            ELSE Dot(self.costs[idx + 1], use_mix)]

_construction_time(self, use_mix, building_bulks) ==
    [i \in 1..Len(building_bulks) |->
        LET month_indices == SearchSorted(self.construction_sqft_for_months,
                                          building_bulks[i])
        IN  Dot(self.construction_months[month_indices + 1], use_mix)]

\* mutant of fars_over_max: no form is capped by its name
fars_over_max_off(self, name, far) == FALSE

\* retail_fars_over_max and industrial_fars_over_max: the fars above the
\* height of the form named retail or industrial
fars_over_max(self, name, far) ==
    \/ name = "retail" /\ Gt(far, self.max_retail_height)
    \/ name = "industrial" /\ Gt(far, self.max_industrial_height)

_reference_dataframe(self, name, uses_distrib, parking_config) ==
    LET building_bulk == _building_bulk(self, uses_distrib, parking_config)
        parking_stalls == [i \in 1..Len(self.fars) |->
                             Div(Mul(building_bulk[i],
                                     weighted_parking_rate(self, uses_distrib)),
                                 self.sqft_per_rate)]
        stories == _stories(self, parking_config, building_bulk, parking_stalls)
        park_sqft == _park_sqft(self, parking_config, parking_stalls)
        building_cost_per_sqft == _building_cost(self, uses_distrib, stories)
        months == _construction_time(self, uses_distrib,
                     [i \in 1..Len(self.fars) |-> Add(building_bulk[i], park_sqft[i])])
    IN  [i \in 1..Len(self.fars) |->
          LET park_cost == Mul(Mul(self.parking_cost_d[parking_config],
                                   parking_stalls[i]),
                               self.parking_sqft_d[parking_config])
              total_built_sqft == Add(building_bulk[i], park_sqft[i])
              build_cost == Mul(building_cost_per_sqft[i], building_bulk[i])
              cost == Add(build_cost, park_cost)
              over == fars_over_max(self, name, self.fars[i])
          IN  [ far |-> self.fars[i],
                pclsz |-> tiled_parcel_sizes(self)[i],
                building_sqft |-> building_bulk[i],
                spaces |-> parking_stalls[i],
                park_sqft |-> park_sqft[i],
                total_built_sqft |-> total_built_sqft,
                parking_sqft_ratio |-> Div(park_sqft[i], total_built_sqft),
                stories |-> Ceil(stories[i]),
                height |-> Mul(Ceil(stories[i]), self.height_per_story),
                build_cost_sqft |-> building_cost_per_sqft[i],
                build_cost |-> build_cost,
                park_cost |-> park_cost,
                cost |-> cost,
                ave_cost_sqft |->
                    IF over THEN NaN
                    ELSE Mul(Div(cost, total_built_sqft), self.profit_factor),
                construction_months |-> months[i] ]]

_generate_reference(self) ==
    [key \in {<<name, self.parking_configs[c]>> :
                 name \in DOMAIN self.forms, c \in 1..Len(self.parking_configs)} |->
        _reference_dataframe(self, key[1], self.forms[key[1]], key[2])]

(***************************************************************************)
(* SqFtProForma.check_is_reasonable: the assertions on the arguments, as   *)
(* the conditions under which one of them fails.  The isinstance tests on  *)
(* the forms hold for every bundle of the model.                           *)
(***************************************************************************)
fars_unreasonable(kw) ==
    \E i \in 1..Len(kw.fars) : Gt(kw.fars[i], I(20)) \/ Le(kw.fars[i], I(0))

\* a numpy array, as against a list or a dictionary
ndarray(a) == [class |-> "ndarray", values |-> a]

\* isinstance(v, dict) for a value of forms, which is a dictionary from uses
\* to fractions or an array
isinstance_dict(v) == "class" \notin DOMAIN v

\* the loop over forms: a value that is not a dictionary (every number of
\* the model is a float)
forms_unreasonable(kw) ==
    \E k \in DOMAIN kw.forms : ~isinstance_dict(kw.forms[k])

parking_rates_unreasonable(kw) ==
    \E k \in DOMAIN kw.parking_rates :
        \/ k \notin Range(kw.uses)
        \/ ~(Le(I(0), kw.parking_rates[k]) /\ Lt(kw.parking_rates[k], I(5)))

\* the first loop over parking_sqft_d
parking_sqft_d_unreasonable(kw) ==
    \E k \in DOMAIN kw.parking_sqft_d :
        \/ k \notin Range(kw.parking_configs)
        \/ ~(Le(I(50), kw.parking_sqft_d[k]) /\ Le(kw.parking_sqft_d[k], I(1000)))

\* the second loop, which again runs over parking_sqft_d
parking_cost_d_unreasonable(kw) ==
    \E k \in DOMAIN kw.parking_sqft_d :
        \/ k \notin DOMAIN kw.parking_cost_d
        \/ ~(Le(I(10), kw.parking_sqft_d[k]) /\ Le(kw.parking_sqft_d[k], I(300)))

heights_for_costs_unreasonable(kw) ==
    \E i \in 1..Len(kw.heights_for_costs) :
        LET v == kw.heights_for_costs[i]
        IN  ~(v = Inf \/ v = NInf) /\ ~(Le(I(0), v) /\ Le(v, I(1000)))

costs_unreasonable(kw) ==
    \E k \in DOMAIN kw.costs :
        \/ k \notin Range(kw.uses)
        \/ \E i \in 1..Len(kw.costs[k]) :
              ~(Lt(I(10), kw.costs[k][i]) /\ Lt(kw.costs[k][i], I(1000)))

\* check_is_reasonable raises an AssertionError
check_is_reasonable_raises(kw) ==
    \/ fars_unreasonable(kw)
    \/ forms_unreasonable(kw)
    \/ parking_rates_unreasonable(kw)
    \/ parking_sqft_d_unreasonable(kw)
    \/ parking_cost_d_unreasonable(kw)
    \/ heights_for_costs_unreasonable(kw)
    \/ costs_unreasonable(kw)

(***************************************************************************)
(* SqFtProForma.__init__ on a dictionary of arguments: the fields of the   *)
(* bundle, the keyword options with their defaults, the converted arrays   *)
(* and the reference table.  None is the empty list for forms_to_test and  *)
(* pass_through (the code treats both alike) and "None" for parcel_filter. *)
(***************************************************************************)
\* the keyword arguments left out of a call
keyword_defaults ==
    [ residential_to_yearly |-> TRUE, forms_to_test |-> <<>>, only_built |-> TRUE,
      pass_through |-> <<>>, simple_zoning |-> FALSE, parcel_filter |-> "None" ]

\* sorted(self.forms.keys())
sorted_forms(keys) ==
    SelectSeq(<<"industrial", "mixedoffice", "mixedresidential", "office",
                "residential", "retail">>, LAMBDA k : k \in keys)

__init__(kwargs) ==
    LET kw == With(keyword_defaults, kwargs)
        c == _convert_types(kw)
        d == With(kw, c)
        o == [ forms_to_test |-> IF kw.forms_to_test = <<>>
                                 THEN sorted_forms(DOMAIN kw.forms)
                                 ELSE kw.forms_to_test,
               reference_dict |-> _generate_reference(d) ]
    IN  With(d, o)

\* the dictionary of the caller after SqFtProForma(**kwargs) returned: self.forms
\* is the dictionary the caller passed, and _convert_types assigns the
\* normalized array of every form into it
kwargs_after_init(kwargs) ==
    [kwargs EXCEPT !.forms =
        [k \in DOMAIN kwargs.forms |->
            ndarray(_convert_types(With(keyword_defaults, kwargs)).forms[k])]]

SqFtProForma(b, only_built, simple_zoning) ==
    __init__(With(b, [only_built |-> only_built, simple_zoning |-> simple_zoning]))

\* SqFtProForma.from_defaults
from_defaults == __init__(get_defaults)

(***************************************************************************)
(* SqFtProForma.to_dict: the attributes that were not converted as they    *)
(* are, the converted ones turned back into lists and use-keyed            *)
(* dictionaries; a form only keeps the uses whose fraction is not 0.       *)
(***************************************************************************)
\* the position of a use in self.uses
use_index(self, use) == CHOOSE i \in 1..Len(self.uses) : self.uses[i] = use

\* mutant of to_dict: the parking rates are keyed by the uses in reverse order
to_dict_rates_reversed(self) ==
    LET nu == Len(self.uses)
        unconverted == {"parcel_sizes", "uses", "residential_uses", "profit_factor",
                        "building_efficiency", "parcel_coverage", "cap_rate",
                        "sqft_per_rate", "parking_configs", "heights_for_costs",
                        "parking_sqft_d", "parking_cost_d", "height_per_story",
                        "max_retail_height", "max_industrial_height",
                        "residential_to_yearly", "parcel_filter", "only_built",
                        "forms_to_test", "pass_through", "simple_zoning",
                        "construction_sqft_for_months", "loan_to_cost_ratio",
                        "drawdown_factor", "interest_rate", "loan_fees"}
    IN  With([a \in unconverted |-> self[a]],
             [ fars |-> self.fars,
               parking_rates |->
                   [use \in Range(self.uses) |->
                       self.parking_rates[nu + 1 - use_index(self, use)]],
               forms |->
                   [k \in DOMAIN self.forms |->
                       [use \in {u \in Range(self.uses) :
                                    self.forms[k][use_index(self, u)] # I(0)} |->
                           self.forms[k][use_index(self, use)]]],
               costs |->
                   [use \in Range(self.uses) |->
                       [h \in 1..Len(self.costs) |->
                           self.costs[h][use_index(self, use)]]],
               construction_months |->
                   [use \in Range(self.uses) |->
                       [h \in 1..Len(self.construction_months) |->
                           self.construction_months[h][use_index(self, use)]]] ])

to_dict(self) ==
    LET unconverted == {"parcel_sizes", "uses", "residential_uses", "profit_factor",
                        "building_efficiency", "parcel_coverage", "cap_rate",
                        "sqft_per_rate", "parking_configs", "heights_for_costs",
                        "parking_sqft_d", "parking_cost_d", "height_per_story",
                        "max_retail_height", "max_industrial_height",
                        "residential_to_yearly", "parcel_filter", "only_built",
                        "forms_to_test", "pass_through", "simple_zoning",
                        "construction_sqft_for_months", "loan_to_cost_ratio",
                        "drawdown_factor", "interest_rate", "loan_fees"}
    IN  With([a \in unconverted |-> self[a]],
             [ fars |-> self.fars,
               parking_rates |->
                   [use \in Range(self.uses) |->
                       self.parking_rates[use_index(self, use)]],
               forms |->
                   [k \in DOMAIN self.forms |->
                       [use \in {u \in Range(self.uses) :
                                    self.forms[k][use_index(self, u)] # I(0)} |->
                           self.forms[k][use_index(self, use)]]],
               costs |->
                   [use \in Range(self.uses) |->
                       [h \in 1..Len(self.costs) |->
                           self.costs[h][use_index(self, use)]]],
               construction_months |->
                   [use \in Range(self.uses) |->
                       [h \in 1..Len(self.construction_months) |->
                           self.construction_months[h][use_index(self, use)]]] ])

(***************************************************************************)
(* Site tables.  A DataFrame of sites is its optional columns (max_dua,    *)
(* ave_unit_size; the required columns are always there) and its rows in   *)
(* index order.  A row carries id, rent (one rent per use, in the order of *)
(* uses), land_cost, parcel_size, max_far, max_height, max_dua and         *)
(* ave_unit_size; the last two are read only when their column exists.     *)
(***************************************************************************)
\* pandas min(axis=1): the least of the values that are not nan; nan when all are
NanMin(vals) ==
    LET s == {v \in vals : ~IsNaN(v)}
    IN  IF s = {} THEN NaN ELSE CHOOSE m \in s : \A v \in s : Le(m, v)

\* df[col] = pd.Series(): the column exists afterwards and holds nan in every row
_simple_zoning(form, df) ==
    IF form = "residential"
    THEN [df EXCEPT !.rows = [j \in 1..Len(df.rows) |->
                                [df.rows[j] EXCEPT !.max_far = NaN, !.max_height = NaN]]]
    ELSE [columns |-> df.columns \cup {"max_dua"},
          rows |-> [j \in 1..Len(df.rows) |->
                      [df.rows[j] EXCEPT !.max_dua = NaN, !.max_height = NaN]]]

\* the branch of _min_max_fars that reads max_dua
uses_max_dua(df, resratio) == "max_dua" \in df.columns /\ Gt(resratio, I(0))

\* assert 'ave_unit_size' in df.columns
_min_max_fars_raises(df, resratio) ==
    uses_max_dua(df, resratio) /\ "ave_unit_size" \notin df.columns

max_far_from_dua(self, row, resratio) ==
    Div(Div(Div(Mul(Mul(row.max_dua, Div(row.parcel_size, I(43560))),
                    row.ave_unit_size),
                self.building_efficiency),
            resratio),
        row.parcel_size)

\* mutant of _min_max_fars: the max_dua branch leaves max_far out of the minimum
_min_max_fars_without_max_far(self, df, resratio) ==
    [j \in 1..Len(df.rows) |->
        LET row == df.rows[j]
        IN  IF uses_max_dua(df, resratio)
            THEN NanMin({row.max_far_from_heights,
                         max_far_from_dua(self, row, resratio)})
            ELSE NanMin({row.max_far_from_heights, row.max_far})]

\* one value per row of df, which already holds max_far_from_heights
_min_max_fars(self, df, resratio) ==
    [j \in 1..Len(df.rows) |->
        LET row == df.rows[j]
        IN  IF uses_max_dua(df, resratio)
            THEN NanMin({row.max_far_from_heights, row.max_far,
                         max_far_from_dua(self, row, resratio)})
            ELSE NanMin({row.max_far_from_heights, row.max_far})]

\* mutant of only_built_query: no query
only_built_query_skipped(self, df) == df

\* df.query('min_max_fars > 0 and parcel_size > 0') when only_built
only_built_query(self, df) ==
    IF self.only_built
    THEN [df EXCEPT !.rows = SelectSeq(df.rows,
              LAMBDA row : Gt(row.min_max_fars, I(0)) /\ Gt(row.parcel_size, I(0)))]
    ELSE df

\* mutant of zoned_far: the height mask is missing
zoned_far_no_height_mask(far, height, min_max_fars, max_height) ==
    IF ~IsNaN(far) /\ Gt(far, Add(min_max_fars, Rat(1, 100))) THEN NaN ELSE far

\* one cell of the fars matrix after the two zoning masks
zoned_far(far, height, min_max_fars, max_height) ==
    IF \/ ~IsNaN(far) /\ Gt(far, Add(min_max_fars, Rat(1, 100)))
       \/ ~IsNaN(height) /\ Gt(height, Add(max_height, Rat(1, 100)))
    THEN NaN ELSE far

\* mutant of financing_cost: the points are left out
financing_cost_without_points(self, total_construction_cost, months) ==
    Mul(Mul(Mul(total_construction_cost, self.loan_to_cost_ratio),
            self.drawdown_factor),
        Mul(Div(self.interest_rate, I(12)), months))

\* total_financing_costs = interest + points
financing_cost(self, total_construction_cost, months) ==
    Add(Mul(Mul(Mul(total_construction_cost, self.loan_to_cost_ratio),
                self.drawdown_factor),
            Mul(Div(self.interest_rate, I(12)), months)),
        Mul(Mul(total_construction_cost, self.loan_to_cost_ratio), self.loan_fees))

building_revenue(self, ref, row, building_bulk) ==
    Div(Mul(Mul(Mul(building_bulk, Sub(I(1), ref.parking_sqft_ratio)),
                self.building_efficiency),
            row.weighted_rent),
        self.cap_rate)

\* profit[np.isnan(profit)] = -np.inf
nan_to_ninf(profit) == IF IsNaN(profit) THEN NInf ELSE profit

\* the arrays at one cell, before any hook has seen them
cell_profit(far, building_bulk, building_cost, total_financing_cost, total_development_cost, revenue) ==
    [ far |-> far,
      building_bulk |-> building_bulk,
      building_cost |-> building_cost,
      total_financing_cost |-> total_financing_cost,
      total_development_cost |-> total_development_cost,
      building_revenue |-> revenue ]

cell_financing(self, ref, row, far, building_bulk, building_cost, total_construction_cost, total_financing_cost) ==
    cell_profit(far, building_bulk, building_cost, total_financing_cost,
                Add(total_construction_cost, total_financing_cost),
                building_revenue(self, ref, row, building_bulk))

cell_costs(self, ref, row, far, building_bulk, building_cost) ==
    cell_financing(self, ref, row, far, building_bulk, building_cost,
                   Add(building_cost, row.land_cost),
                   financing_cost(self, Add(building_cost, row.land_cost),
                                  ref.construction_months))

\* one cell of the profit calculation: a far of the masked matrix on one site
profit_cell(self, ref, far, row) ==
    cell_costs(self, ref, row, far, Mul(far, row.parcel_size),
               Mul(Mul(far, row.parcel_size), ref.ave_cost_sqft))

\* mutant of argmax: the last index that holds the maximum
argmax_last(col) ==
    CHOOSE i \in 1..Len(col) :
        /\ \A k \in 1..Len(col) : Le(col[k], col[i])
        /\ \A k \in (i + 1)..Len(col) : Lt(col[k], col[i])

\* mutant of argmax: the highest far the zoning allows, whatever its profit
argmax_highest_far(col) ==
    IF \A k \in 1..Len(col) : col[k] = NInf THEN 1
    ELSE CHOOSE i \in 1..Len(col) :
            col[i] # NInf /\ \A k \in (i + 1)..Len(col) : col[k] = NInf

\* np.argmax of one column: the first index that holds the maximum
argmax(col) ==
    CHOOSE i \in 1..Len(col) :
        /\ \A k \in 1..Len(col) : Le(col[k], col[i])
        /\ \A k \in 1..(i - 1) : Lt(col[k], col[i])

\* mutant of built_filter: nothing is dropped when only_built is off
built_filter_only_when_built(self, outdf) ==
    IF self.only_built
    THEN SelectSeq(outdf, LAMBDA r : Gt(r.max_profit, I(0)))
    ELSE outdf

\* mutant of built_filter: every site is returned
built_filter_skipped(self, outdf) == outdf

\* the final filter of a pass
built_filter(self, outdf) ==
    IF self.only_built
    THEN SelectSeq(outdf, LAMBDA r : Gt(r.max_profit, I(0)))
    ELSE SelectSeq(outdf, LAMBDA r : r.max_profit # NInf)

\* mutant of dev_info_after: fars is a view of dev_info's index, so a far masked
\* for some site is nan in the reference table afterwards
dev_info_after_view(dev_info, fars) ==
    [i \in 1..Len(dev_info) |->
        IF \E j \in 1..Len(fars[i]) : IsNaN(fars[i][j])
        THEN [dev_info[i] EXCEPT !.far = NaN] ELSE dev_info[i]]

\* what the writes into the fars matrix leave of the reference table: fars is
\* np.repeat's fresh array, so fars[mask] = nan never reaches dev_info
dev_info_after(dev_info, fars) == dev_info

(***************************************************************************)
(* The hooks a caller passes to lookup.  A hook is a function of the       *)
(* caller; the model names a few: cap_far writes max_far 1/2 on every      *)
(* site, drop_last returns the table without its last row (a table of      *)
(* another shape), halve, add_fee and negate return an array of the shape  *)
(* they received.                                                          *)
(***************************************************************************)
\* modify_df(self, form, df)
modify_df(hook, self, form_, df) ==
    CASE hook = "cap_far" ->
           [df EXCEPT !.rows = [j \in 1..Len(df.rows) |->
               [df.rows[j] EXCEPT !.max_far = Rat(1, 2)]]]
      [] hook = "drop_last" ->
           [df EXCEPT !.rows = SubSeq(df.rows, 1, Len(df.rows) - 1)]

\* modify_revenues(self, form, df, revenues)
modify_revenues(hook, self, form_, df, revenues) ==
    CASE hook = "halve" ->
           [i \in 1..Len(revenues) |-> [j \in 1..Len(revenues[i]) |->
               Mul(revenues[i][j], Rat(1, 2))]]

\* modify_costs(self, form, df, costs)
modify_costs(hook, self, form_, df, costs) ==
    CASE hook = "add_fee" ->
           [i \in 1..Len(costs) |-> [j \in 1..Len(costs[i]) |->
               Add(costs[i][j], I(1000))]]

\* modify_profits(self, form, df, profits)
modify_profits(hook, self, form_, df, profits) ==
    CASE hook = "negate" ->
           [i \in 1..Len(profits) |-> [j \in 1..Len(profits[i]) |->
               Neg(profits[i][j])]]

\* the calls made so far, with the call of hook `name` when one was passed
hook_called(calls, h, name) ==
    IF h[name] # "None" THEN Append(calls, name) ELSE calls

(***************************************************************************)
(* SqFtProForma._lookup_parking_cfg, in the order of its statements.  Each *)
(* stage takes what the earlier statements computed; h holds the four      *)
(* hooks of the call and calls the hooks called so far in the pass.        *)
(***************************************************************************)
\* df = df.copy(); df['weighted_rent'] = np.dot(df[self.uses], self.forms[form])
with_weighted_rent(self, form_, table_) ==
    [table_ EXCEPT !.rows = [j \in 1..Len(table_.rows) |->
        With(table_.rows[j],
             [ weighted_rent |-> Dot(table_.rows[j].rent, self.forms[form_]) ])]]

\* df = modify_df(self, form, df) if modify_df else df
df_after_modify_df(h, self, form_, df) ==
    IF h.modify_df # "None" THEN modify_df(h.modify_df, self, form_, df) ELSE df

\* df['max_far_from_heights'] = df.max_height / height_per_story * parcel_coverage
with_max_far_from_heights(self, df) ==
    [df EXCEPT !.rows = [j \in 1..Len(df.rows) |->
        With(df.rows[j],
             [ max_far_from_heights |->
                   Mul(Div(df.rows[j].max_height, self.height_per_story),
                       self.parcel_coverage) ])]]

\* df['min_max_fars'] = self._min_max_fars(df, resratio)
with_min_max_fars(df, mmf) ==
    [df EXCEPT !.rows = [j \in 1..Len(df.rows) |->
        With(df.rows[j], [min_max_fars |-> mmf[j]])]]

\* the zoning columns and the only_built query, on the table the hook left
zoned_df(self, form_, df) ==
    only_built_query(self,
        with_min_max_fars(df, _min_max_fars(self, df, self.res_ratios[form_])))

\* mutant of working_df: modify_df is called after the zoning columns are set
working_df_modify_df_last(self, form_, table_, h) ==
    df_after_modify_df(h, self, form_,
        zoned_df(self, form_,
            with_max_far_from_heights(self,
                with_weighted_rent(self, form_, table_))))

\* the working table of a pass, after the only_built query
working_df(self, form_, table_, h) ==
    zoned_df(self, form_,
        with_max_far_from_heights(self,
            df_after_modify_df(h, self, form_,
                with_weighted_rent(self, form_, table_))))

\* the (far x site) matrix fars after both masks
zoned_fars(dev_info, df) ==
    [i \in 1..Len(dev_info) |-> [j \in 1..Len(df.rows) |->
        zoned_far(dev_info[i].far, dev_info[i].height,
                  df.rows[j].min_max_fars, df.rows[j].max_height)]]

\* the (far x site) arrays of the profit calculation
profit_cells(self, dev_info, df, fars) ==
    [i \in 1..Len(dev_info) |-> [j \in 1..Len(df.rows) |->
        profit_cell(self, dev_info[i], fars[i][j], df.rows[j])]]

\* maxprofitind = np.argmax(profit, axis=0)
max_profit_ind(cells, nsites) ==
    [j \in 1..nsites |-> argmax([i \in 1..Len(cells) |-> cells[i][j].profit])]

\* one row of outdf: the arrays read at the site's maxprofitind
out_row(self, parking_config, id, c, ref, resratio) ==
    [ id |-> id,
      building_sqft |-> c.building_bulk,
      building_cost |-> c.building_cost,
      parking_ratio |-> ref.parking_sqft_ratio,
      stories |-> Div(ref.height, self.height_per_story),
      total_cost |-> c.total_development_cost,
      building_revenue |-> c.building_revenue,
      max_profit_far |-> c.far,
      max_profit |-> c.profit,
      parking_config |-> parking_config,
      construction_time |-> ref.construction_months,
      financing_cost |-> c.total_financing_cost,
      residential_sqft |->
          Mul(Mul(c.building_bulk, self.building_efficiency), resratio),
      non_residential_sqft |->
          Mul(Mul(c.building_bulk, self.building_efficiency), Sub(I(1), resratio)) ]

out_rows(self, form_, parking_config, dev_info, df, cells, ind) ==
    [j \in 1..Len(df.rows) |->
        out_row(self, parking_config, df.rows[j].id, cells[ind[j]][j],
                dev_info[ind[j]], self.res_ratios[form_])]

\* one array of the profit calculation
array(cells, name) ==
    [i \in 1..Len(cells) |-> [j \in 1..Len(cells[i]) |-> cells[i][j][name]]]

\* the arrays with the array `name` bound to arr
with_array(cells, name, arr) ==
    [i \in 1..Len(cells) |-> [j \in 1..Len(cells[i]) |->
        With(cells[i][j], name :> arr[i][j])]]

\* building_revenue = modify_revenues(...) if modify_revenues else building_revenue
revenue_after_modify_revenues(h, self, form_, df, revenues) ==
    IF h.modify_revenues # "None"
    THEN modify_revenues(h.modify_revenues, self, form_, df, revenues)
    ELSE revenues

\* total_development_costs = modify_costs(...) if modify_costs else ...
costs_after_modify_costs(h, self, form_, df, costs) ==
    IF h.modify_costs # "None"
    THEN modify_costs(h.modify_costs, self, form_, df, costs)
    ELSE costs

\* profit = modify_profits(...) if modify_profits else profit
profit_after_modify_profits(h, self, form_, df, profits) ==
    IF h.modify_profits # "None"
    THEN modify_profits(h.modify_profits, self, form_, df, profits)
    ELSE profits

\* profit = building_revenue - total_development_costs
profit_before_modify_profits(cells) ==
    [i \in 1..Len(cells) |-> [j \in 1..Len(cells[i]) |->
        Sub(cells[i][j].building_revenue, cells[i][j].total_development_cost)]]

\* profit[np.isnan(profit)] = -np.inf, on the whole array
profit_array(profits) ==
    [i \in 1..Len(profits) |-> [j \in 1..Len(profits[i]) |->
        nan_to_ninf(profits[i][j])]]

\* the locals a pass leaves: the working table, the arrays, the hooks called,
\* the rows it returns
pass_locals(self, form_, parking_config, dev_info, df, fars, calls, cells, ind) ==
    [ parking_config |-> parking_config,
      df |-> df,
      cells |-> cells,
      calls |-> calls,
      maxprofitind |-> ind,
      dev_info |-> dev_info_after(dev_info, fars),
      outdf |-> built_filter(self,
                    out_rows(self, form_, parking_config, dev_info, df, cells, ind)) ]

pass_select(self, form_, parking_config, dev_info, df, fars, calls, cells) ==
    pass_locals(self, form_, parking_config, dev_info, df, fars, calls, cells,
                max_profit_ind(cells, Len(df.rows)))

\* the profit array: what modify_profits receives and what it returns
pass_modify_profits(self, form_, parking_config, dev_info, df, fars, h, calls, cells) ==
    pass_select(self, form_, parking_config, dev_info, df, fars,
                hook_called(calls, h, "modify_profits"),
                with_array(cells, "profit",
                    profit_array(profit_after_modify_profits(h, self, form_, df,
                                     array(cells, "profit_received")))))

pass_subtract(self, form_, parking_config, dev_info, df, fars, h, calls, cells) ==
    pass_modify_profits(self, form_, parking_config, dev_info, df, fars, h, calls,
                with_array(cells, "profit_received",
                           profit_before_modify_profits(cells)))

pass_modify_costs(self, form_, parking_config, dev_info, df, fars, h, calls, cells) ==
    pass_subtract(self, form_, parking_config, dev_info, df, fars, h,
                hook_called(calls, h, "modify_costs"),
                with_array(cells, "total_development_cost",
                    costs_after_modify_costs(h, self, form_, df,
                        array(cells, "total_development_cost"))))

pass_modify_revenues(self, form_, parking_config, dev_info, df, fars, h, calls, cells) ==
    pass_modify_costs(self, form_, parking_config, dev_info, df, fars, h,
                hook_called(calls, h, "modify_revenues"),
                with_array(cells, "building_revenue",
                    revenue_after_modify_revenues(h, self, form_, df,
                        array(cells, "building_revenue"))))

pass_profit(self, form_, parking_config, dev_info, df, fars, h, calls) ==
    pass_modify_revenues(self, form_, parking_config, dev_info, df, fars, h, calls,
                profit_cells(self, dev_info, df, fars))

pass_zoning(self, form_, parking_config, dev_info, df, h, calls) ==
    pass_profit(self, form_, parking_config, dev_info, df,
                zoned_fars(dev_info, df), h, calls)

_lookup_parking_cfg(self, form_, parking_config, table_, h) ==
    pass_zoning(self, form_, parking_config,
                self.reference_dict[<<form_, parking_config>>],
                working_df(self, form_, table_, h),
                h, hook_called(<<>>, h, "modify_df"))

(***************************************************************************)
(* SqFtProForma._max_profit_parking: df.pivot puts one row per site and    *)
(* one column per parking configuration, the columns in sorted order;      *)
(* idxmax(axis=1) names, per site, the first column that holds the row's   *)
(* maximum, skipping the configurations the site has no row for.           *)
(***************************************************************************)
\* the position of a parking configuration among the sorted pivot columns
pivot_column(c) == CASE c = "deck" -> 1 [] c = "surface" -> 2 [] c = "underground" -> 3

RECURSIVE SortedIds(_)
SortedIds(S) ==
    IF S = {} THEN <<>>
    ELSE LET m == CHOOSE x \in S : \A y \in S : x <= y
         IN  <<m>> \o SortedIds(S \ {m})

\* mutant of idxmax: idxmin
idxmin(rows) ==
    CHOOSE r \in rows :
        \A r2 \in rows :
            /\ Le(r.max_profit, r2.max_profit)
            /\ pivot_column(r2.parking_config) < pivot_column(r.parking_config)
                  => Lt(r.max_profit, r2.max_profit)

idxmax(rows) ==
    CHOOSE r \in rows :
        \A r2 \in rows :
            /\ Le(r2.max_profit, r.max_profit)
            /\ pivot_column(r2.parking_config) < pivot_column(r.parking_config)
                  => Lt(r2.max_profit, r.max_profit)

_max_profit_parking(df) ==
    LET ids == SortedIds({df[k].id : k \in 1..Len(df)})
    IN  [n \in 1..Len(ids) |->
            idxmax({df[k] : k \in {k \in 1..Len(df) : df[k].id = ids[n]}})]

\* mutant of lookup_return: no test for an empty concat, whose pivot fails
lookup_return_unguarded(self, lookup_) ==
    IF Len(lookup_) = 0
    THEN [call |-> "lookup", status |-> "raised"]
    ELSE [call |-> "lookup", status |-> "returned",
          value |-> _max_profit_parking(lookup_)]

\* the end of lookup: an empty concat returns pd.DataFrame()
lookup_return(self, lookup_) ==
    IF Len(lookup_) = 0
    THEN [call |-> "lookup", status |-> "returned", value |-> <<>>]
    ELSE [call |-> "lookup", status |-> "returned",
          value |-> _max_profit_parking(lookup_)]

(***************************************************************************)
(* The sites of the model.  Site s has id s.  ave_unit_size 1089 makes a   *)
(* density cap of 20 units per acre a far of 5/7 for a residential form.   *)
(***************************************************************************)
Site(id, rent, land_cost, parcel_size, max_far, max_height, max_dua) ==
    [ id |-> id, rent |-> <<rent, rent>>, land_cost |-> land_cost,
      parcel_size |-> parcel_size, max_far |-> max_far, max_height |-> max_height,
      max_dua |-> max_dua, ave_unit_size |-> I(1089) ]

SitePool ==
    <<  \* profitable, both caps present, max_far binds
        Site(1, I(30), I(10000), I(100), I(2), I(80), I(20)),
        \* the height cap binds: far 1 is within max_far_from_heights, its height is not
        Site(2, I(30), I(0), I(100), I(2), I(15), I(0)),
        \* no buildable far
        Site(3, I(30), I(0), I(100), I(0), I(80), I(20)),
        \* a negative parcel size, low rent
        Site(4, I(5), I(0), I(-100), I(2), I(80), I(20)),
        \* rents below costs
        Site(5, I(10), I(10000), I(100), I(2), I(80), I(20)),
        \* no zoning cap at all
        Site(6, I(30), I(0), I(100), NaN, NaN, I(20)),
        \* max_height 0: every far is too high
        Site(7, I(30), I(0), I(100), I(2), I(0), I(20)),
        \* max_far only
        Site(8, I(30), I(10000), I(100), I(1), NaN, NaN),
        \* an empty parcel: every allowed far costs nothing and earns nothing
        Site(9, I(30), I(0), I(0), I(2), I(80), I(20)) >>

MaxSites == 2

\* the tables a caller passes: at most MaxSites sites of the pool, in id order
Tables ==
    { [columns |-> cols, rows |-> [k \in 1..Len(ids) |-> SitePool[ids[k]]]] :
        cols \in {{}, {"max_dua"}, {"max_dua", "ave_unit_size"}},
        ids \in {SortedIds(S) : S \in {S \in SUBSET (1..Len(SitePool)) :
                                           Cardinality(S) <= MaxSites}} }

(***************************************************************************)
(* The state: a SqFtProForma object and the arguments it was built from,   *)
(* the caller's site table, the hooks of the call, and one                 *)
(* lookup call in progress (its form, its place in the generator over the  *)
(* parking configurations, the rows concatenated so far, the locals of the *)
(* last pass) or the value the last call returned.  The locals of a        *)
(* finished lookup stay readable until the next call on the object.        *)
(***************************************************************************)
VARIABLES pf, bundle, caller_kwargs, table, hooks, pc, form, cfg_i, lookup, frame, returned

vars == <<pf, bundle, caller_kwargs, table, hooks, pc, form, cfg_i, lookup, frame, returned>>

NoFrame == [parking_config |-> "none", df |-> [columns |-> {}, rows |-> <<>>],
            cells |-> <<>>, calls |-> <<>>, maxprofitind |-> <<>>, dev_info |-> <<>>,
            outdf |-> <<>>]

\* no hook is passed to lookup
NoHooks == [modify_df |-> "None", modify_revenues |-> "None",
            modify_costs |-> "None", modify_profits |-> "None"]

Init ==
    /\ \E only_built \in BOOLEAN, simple_zoning \in BOOLEAN :
          bundle = With(Bundle, [only_built |-> only_built,
                                 simple_zoning |-> simple_zoning])
    /\ pf = __init__(bundle)
    /\ caller_kwargs = kwargs_after_init(bundle)
    /\ hooks = NoHooks
    /\ table \in Tables
    /\ pc = "idle"
    /\ form = "none"
    /\ cfg_i = 0
    /\ lookup = <<>>
    /\ frame = NoFrame
    /\ returned = [call |-> "none", status |-> "none"]

\* lookup(form, df, modify_df, modify_revenues, modify_costs, modify_profits):
\* the caller passes its table and its hooks; simple zoning writes into the table
Lookup(f, h) ==
    /\ pc = "idle"
    /\ pc' = "cfg"
    /\ form' = f
    /\ cfg_i' = 1
    /\ lookup' = <<>>
    /\ frame' = NoFrame
    /\ returned' = [call |-> "none", status |-> "none"]
    /\ table' = IF pf.simple_zoning THEN _simple_zoning(f, table) ELSE table
    /\ hooks' = h
    /\ UNCHANGED <<pf, bundle, caller_kwargs>>

\* what a pass leaves in the state
PassStep(fr) ==
    /\ frame' = fr
    /\ lookup' = lookup \o fr.outdf
    /\ pf' = [pf EXCEPT !.reference_dict[<<form, fr.parking_config>>] = fr.dev_info]

\* the next pass of the generator handed to pd.concat
LookupParkingCfg ==
    /\ pc = "cfg"
    /\ cfg_i <= Len(pf.parking_configs)
    /\ ~_min_max_fars_raises(table, pf.res_ratios[form])
    /\ PassStep(_lookup_parking_cfg(pf, form, pf.parking_configs[cfg_i], table, hooks))
    /\ cfg_i' = cfg_i + 1
    /\ UNCHANGED <<bundle, caller_kwargs, table, hooks, pc, form, returned>>

\* the assertion of _min_max_fars fails: lookup raises and returns nothing
LookupRaise ==
    /\ pc = "cfg"
    /\ cfg_i <= Len(pf.parking_configs)
    /\ _min_max_fars_raises(table, pf.res_ratios[form])
    /\ returned' = [call |-> "lookup", status |-> "raised"]
    /\ pc' = "idle"
    /\ UNCHANGED <<pf, bundle, caller_kwargs, table, hooks, form, cfg_i, lookup, frame>>

LookupReturn ==
    /\ pc = "cfg"
    /\ cfg_i > Len(pf.parking_configs)
    /\ returned' = lookup_return(pf, lookup)
    /\ pc' = "idle"
    /\ UNCHANGED <<pf, bundle, caller_kwargs, table, hooks, form, cfg_i, lookup, frame>>

GetDebugInfo(f, c) ==
    /\ pc = "idle"
    /\ returned' = [call |-> "get_debug_info", status |-> "returned",
                    value |-> pf.reference_dict[<<f, c>>]]
    /\ form' = "none" /\ cfg_i' = 0 /\ lookup' = <<>> /\ frame' = NoFrame
    /\ UNCHANGED <<pf, bundle, caller_kwargs, table, hooks, pc>>

GetAveCostSqft(f, c) ==
    /\ pc = "idle"
    /\ returned' = [call |-> "get_ave_cost_sqft", status |-> "returned",
                    value |-> [i \in 1..Len(pf.reference_dict[<<f, c>>]) |->
                                 pf.reference_dict[<<f, c>>][i].ave_cost_sqft]]
    /\ form' = "none" /\ cfg_i' = 0 /\ lookup' = <<>> /\ frame' = NoFrame
    /\ UNCHANGED <<pf, bundle, caller_kwargs, table, hooks, pc>>

Next ==
    \/ \E f \in DOMAIN pf.forms : Lookup(f, NoHooks)
    \/ LookupParkingCfg
    \/ LookupRaise
    \/ LookupReturn
    \/ \E f \in DOMAIN pf.forms, c \in Range(pf.parking_configs) : GetDebugInfo(f, c)
    \/ \E f \in DOMAIN pf.forms, c \in Range(pf.parking_configs) : GetAveCostSqft(f, c)

Spec == Init /\ [][Next]_vars

(***************************************************************************)
(* Lookups with hooks, over a few tables.                                  *)
(***************************************************************************)
\* the hooks a caller passes: each is left out or one of the named functions
HookChoices ==
    [ modify_df : {"None", "cap_far", "drop_last"},
      modify_revenues : {"None", "halve"},
      modify_costs : {"None", "add_fee"},
      modify_profits : {"None", "negate"} ]

\* tables of the profitable site 1 and of site 5, whose rents are below costs
HookTables ==
    { [columns |-> cols, rows |-> [k \in 1..Len(ids) |-> SitePool[ids[k]]]] :
        cols \in {{}, {"max_dua"}},
        ids \in {<<1>>, <<5>>, <<1, 5>>} }

InitHooks ==
    /\ \E only_built \in BOOLEAN :
          bundle = With(Bundle, [only_built |-> only_built])
    /\ pf = __init__(bundle)
    /\ caller_kwargs = kwargs_after_init(bundle)
    /\ hooks = NoHooks
    /\ table \in HookTables
    /\ pc = "idle"
    /\ form = "none"
    /\ cfg_i = 0
    /\ lookup = <<>>
    /\ frame = NoFrame
    /\ returned = [call |-> "none", status |-> "none"]

NextHooks ==
    \/ \E f \in DOMAIN pf.forms, h \in HookChoices : Lookup(f, h)
    \/ LookupParkingCfg
    \/ LookupRaise
    \/ LookupReturn

SpecHooks == InitHooks /\ [][NextHooks]_vars

(***************************************************************************)
(* The object built from the defaults, and the sites of                   *)
(* test_reasonable_feasibility_results: rents in the order of the default  *)
(* uses (retail, industrial, office, residential).                         *)
(***************************************************************************)
TestSite(id, residential) ==
    [ id |-> id, rent |-> <<I(12), I(12), I(15), I(residential)>>,
      land_cost |-> I(100000), parcel_size |-> I(1000), max_far |-> I(2),
      max_height |-> I(80), max_dua |-> NaN, ave_unit_size |-> NaN ]

\* the sites of the test; 'a', 'b', 'c' are ids 1, 2, 3
TestSites == <<TestSite(1, 30), TestSite(2, 20), TestSite(3, 10)>>

\* the table of the test and the tables of some of its sites
DefaultTables ==
    { [columns |-> {}, rows |-> [k \in 1..Len(ids) |-> TestSites[ids[k]]]] :
        ids \in {SortedIds(S) : S \in SUBSET (1..Len(TestSites))} }

InitDefaults ==
    /\ bundle = get_defaults
    /\ pf = from_defaults
    /\ caller_kwargs = kwargs_after_init(bundle)
    /\ hooks = NoHooks
    /\ table \in DefaultTables
    /\ pc = "idle"
    /\ form = "none"
    /\ cfg_i = 0
    /\ lookup = <<>>
    /\ frame = NoFrame
    /\ returned = [call |-> "none", status |-> "none"]

NextDefaults ==
    \/ \E f \in DOMAIN pf.forms : Lookup(f, NoHooks)
    \/ LookupParkingCfg
    \/ LookupReturn
    \/ \E f \in DOMAIN pf.forms, c \in Range(pf.parking_configs) : GetDebugInfo(f, c)
    \/ \E f \in DOMAIN pf.forms, c \in Range(pf.parking_configs) : GetAveCostSqft(f, c)

SpecDefaults == InitDefaults /\ [][NextDefaults]_vars

(***************************************************************************)
(* Objects that differ in the parcel size of the reference tables.         *)
(***************************************************************************)
\* values of the single entry of parcel_sizes
ParcelSizes == {I(10000), I(1000), I(20000)}

\* the tables of at most one site of the pool
OneSiteTables == {t \in Tables : Len(t.rows) <= 1}

InitParcelSizes ==
    /\ \E p \in ParcelSizes, only_built \in BOOLEAN :
          bundle = With(Bundle, [parcel_sizes |-> <<p>>, only_built |-> only_built])
    /\ pf = __init__(bundle)
    /\ caller_kwargs = kwargs_after_init(bundle)
    /\ hooks = NoHooks
    /\ table \in OneSiteTables
    /\ pc = "idle"
    /\ form = "none"
    /\ cfg_i = 0
    /\ lookup = <<>>
    /\ frame = NoFrame
    /\ returned = [call |-> "none", status |-> "none"]

SpecParcelSizes == InitParcelSizes /\ [][Next]_vars

(***************************************************************************)
(* Two threads that each call lookup once on the same object and pass the  *)
(* same DataFrame.  In this specification pc, form, cfg_i, lookup, frame   *)
(* and returned hold one value per thread; pf and table are shared.  A     *)
(* thread can be switched out between the statements of lookup: after      *)
(* _simple_zoning, and between two passes of the generator (each pass      *)
(* starts with its own df.copy()).                                         *)
(***************************************************************************)
Threads == {1, 2}

\* the tables the two callers share: one site, with or without a density cap
SharedTables ==
    { [columns |-> cols, rows |-> <<SitePool[id]>>] :
        cols \in {{}, {"max_dua", "ave_unit_size"}}, id \in {1, 2, 8} }

InitThreads ==
    /\ \E only_built \in BOOLEAN, simple_zoning \in BOOLEAN :
          bundle = With(Bundle, [only_built |-> only_built,
                                 simple_zoning |-> simple_zoning])
    /\ pf = __init__(bundle)
    /\ caller_kwargs = kwargs_after_init(bundle)
    /\ hooks = NoHooks
    /\ table \in SharedTables
    /\ pc = [t \in Threads |-> "idle"]
    /\ form = [t \in Threads |-> "none"]
    /\ cfg_i = [t \in Threads |-> 0]
    /\ lookup = [t \in Threads |-> <<>>]
    /\ frame = [t \in Threads |-> NoFrame]
    /\ returned = [t \in Threads |-> [call |-> "none", status |-> "none"]]

\* thread t enters lookup(f, df); simple zoning writes into the shared table
ThreadLookup(t, f) ==
    /\ pc[t] = "idle"
    /\ returned[t].call = "none"
    /\ pc' = [pc EXCEPT ![t] = "cfg"]
    /\ form' = [form EXCEPT ![t] = f]
    /\ cfg_i' = [cfg_i EXCEPT ![t] = 1]
    /\ table' = IF pf.simple_zoning THEN _simple_zoning(f, table) ELSE table
    /\ UNCHANGED <<pf, bundle, caller_kwargs, hooks, lookup, frame, returned>>

\* the next pass of thread t's generator, on a copy of the table as it is now
ThreadLookupParkingCfg(t) ==
    /\ pc[t] = "cfg"
    /\ cfg_i[t] <= Len(pf.parking_configs)
    /\ ~_min_max_fars_raises(table, pf.res_ratios[form[t]])
    /\ LET fr == _lookup_parking_cfg(pf, form[t], pf.parking_configs[cfg_i[t]],
                                     table, hooks)
       IN  /\ frame' = [frame EXCEPT ![t] = fr]
           /\ lookup' = [lookup EXCEPT ![t] = lookup[t] \o fr.outdf]
           /\ pf' = [pf EXCEPT !.reference_dict[<<form[t], fr.parking_config>>] =
                                    fr.dev_info]
    /\ cfg_i' = [cfg_i EXCEPT ![t] = cfg_i[t] + 1]
    /\ UNCHANGED <<bundle, caller_kwargs, table, hooks, pc, form, returned>>

\* the assertion of _min_max_fars fails in thread t
ThreadLookupRaise(t) ==
    /\ pc[t] = "cfg"
    /\ cfg_i[t] <= Len(pf.parking_configs)
    /\ _min_max_fars_raises(table, pf.res_ratios[form[t]])
    /\ returned' = [returned EXCEPT ![t] = [call |-> "lookup", status |-> "raised"]]
    /\ pc' = [pc EXCEPT ![t] = "idle"]
    /\ UNCHANGED <<pf, bundle, caller_kwargs, table, hooks, form, cfg_i, lookup, frame>>

ThreadLookupReturn(t) ==
    /\ pc[t] = "cfg"
    /\ cfg_i[t] > Len(pf.parking_configs)
    /\ returned' = [returned EXCEPT ![t] = lookup_return(pf, lookup[t])]
    /\ pc' = [pc EXCEPT ![t] = "idle"]
    /\ UNCHANGED <<pf, bundle, caller_kwargs, table, hooks, form, cfg_i, lookup, frame>>

NextThreads ==
    \E t \in Threads :
        \/ \E f \in DOMAIN pf.forms : ThreadLookup(t, f)
        \/ ThreadLookupParkingCfg(t)
        \/ ThreadLookupRaise(t)
        \/ ThreadLookupReturn(t)

SpecThreads == InitThreads /\ [][NextThreads]_vars

(***************************************************************************)
(* Objects in simple-zoning mode, on tables that have both columns of the  *)
(* density cap or neither.                                                 *)
(***************************************************************************)
SimpleZoningTables ==
    {t \in Tables : t.columns \in {{}, {"max_dua", "ave_unit_size"}}}

InitSimpleZoning ==
    /\ \E only_built \in BOOLEAN :
          bundle = With(Bundle, [only_built |-> only_built, simple_zoning |-> TRUE])
    /\ pf = __init__(bundle)
    /\ caller_kwargs = kwargs_after_init(bundle)
    /\ hooks = NoHooks
    /\ table \in SimpleZoningTables
    /\ pc = "idle"
    /\ form = "none"
    /\ cfg_i = 0
    /\ lookup = <<>>
    /\ frame = NoFrame
    /\ returned = [call |-> "none", status |-> "none"]

SpecSimpleZoning == InitSimpleZoning /\ [][Next]_vars

(***************************************************************************)
(* Objects built from the defaults with lower heights of the forms named   *)
(* retail and industrial, and sites whose rents make every form worth      *)
(* building up to the far the zoning allows.                               *)
(***************************************************************************)
MaxRetailHeights == {I(1), I(2)}
MaxIndustrialHeights == {Rat(1, 2), I(2)}

HighRentSite(id, max_far) ==
    [ id |-> id, rent |-> <<I(30), I(30), I(30), I(30)>>,
      land_cost |-> I(100000), parcel_size |-> I(1000), max_far |-> max_far,
      max_height |-> I(80), max_dua |-> NaN, ave_unit_size |-> NaN ]

HighRentSites == <<HighRentSite(1, I(2)), HighRentSite(2, Rat(3, 4))>>

HighRentTables ==
    { [columns |-> {}, rows |-> [k \in 1..Len(ids) |-> HighRentSites[ids[k]]]] :
        ids \in {SortedIds(S) : S \in SUBSET (1..Len(HighRentSites))} }

InitHeightCaps ==
    /\ \E r \in MaxRetailHeights, n \in MaxIndustrialHeights :
          bundle = With(get_defaults, [max_retail_height |-> r,
                                       max_industrial_height |-> n])
    /\ pf = __init__(bundle)
    /\ caller_kwargs = kwargs_after_init(bundle)
    /\ hooks = NoHooks
    /\ table \in HighRentTables
    /\ pc = "idle"
    /\ form = "none"
    /\ cfg_i = 0
    /\ lookup = <<>>
    /\ frame = NoFrame
    /\ returned = [call |-> "none", status |-> "none"]

SpecHeightCaps == InitHeightCaps /\ [][NextDefaults]_vars

(***************************************************************************)
(* Construction.  The caller holds a dictionary of arguments; __init__     *)
(* either raises in check_is_reasonable, and no object exists, or returns  *)
(* the object.  to_dict returns the declarative form of the object, and    *)
(* the caller may build a second object from it, which leaves the first    *)
(* one in place.                                                           *)
(***************************************************************************)
NoObject == [class |-> "None"]

\* the arguments tried: Bundle and get_defaults with values inside, on the
\* edge of and outside the validated ranges
LastFars == {I(2), I(20), I(0), I(21)}
RetailParkingRates == {I(2), I(0), I(5), I(-1)}
SurfaceParkingSqft == {I(300), I(50), I(500), I(1000), I(49), I(1001)}
SurfaceParkingCost == {I(30), I(10), I(300), I(5), I(301)}
HeightsForCosts == { <<I(15), I(55), Inf>>, <<I(0), I(1000), Inf>>,
                     <<I(15), I(1001), Inf>>, <<I(-1), I(55), Inf>> }
RetailCosts == { <<I(160), I(175), I(200)>>, <<I(10), I(175), I(200)>>,
                 <<I(160), I(175), I(1000)>>, <<I(11), I(175), I(999)>> }

CandidateBundles ==
    { [Bundle EXCEPT !.fars[Len(Bundle.fars)] = far,
                     !.parking_rates["retail"] = rate,
                     !.parking_sqft_d["surface"] = sqft,
                     !.parking_cost_d["surface"] = cost,
                     !.heights_for_costs = heights,
                     !.costs["retail"] = costs] :
        far \in LastFars, rate \in RetailParkingRates, sqft \in SurfaceParkingSqft,
        cost \in SurfaceParkingCost, heights \in HeightsForCosts,
        costs \in RetailCosts }
    \cup
    { [get_defaults EXCEPT !.parking_sqft_d["surface"] = sqft,
                           !.parking_cost_d["surface"] = cost] :
        sqft \in SurfaceParkingSqft, cost \in SurfaceParkingCost }

InitConstruct ==
    /\ bundle \in CandidateBundles
    /\ caller_kwargs = bundle
    /\ pf = NoObject
    /\ table = [columns |-> {}, rows |-> <<>>]
    /\ hooks = NoHooks
    /\ pc = "new"
    /\ form = "none"
    /\ cfg_i = 0
    /\ lookup = <<>>
    /\ frame = NoFrame
    /\ returned = [call |-> "none", status |-> "none"]

\* SqFtProForma(**kwargs) returns the object
Construct ==
    /\ pc = "new"
    /\ ~check_is_reasonable_raises(caller_kwargs)
    /\ pf' = __init__(caller_kwargs)
    /\ caller_kwargs' = kwargs_after_init(caller_kwargs)
    /\ returned' = [call |-> "__init__", status |-> "returned"]
    /\ pc' = "built"
    /\ UNCHANGED <<bundle, table, hooks, form, cfg_i, lookup, frame>>

\* SqFtProForma(**kwargs) raises: the name is never bound to an object
ConstructRaise ==
    /\ pc = "new"
    /\ check_is_reasonable_raises(caller_kwargs)
    /\ returned' = [call |-> "__init__", status |-> "raised"]
    /\ pc' = "failed"
    /\ UNCHANGED <<pf, bundle, caller_kwargs, table, hooks, form, cfg_i, lookup, frame>>

\* SqFtProForma(**kwargs) a second time, on the dictionary the first object
\* was built from (caller_kwargs is that dictionary as it is now, bundle is
\* what it held when the caller wrote it)
ConstructAgain ==
    /\ pc = "built"
    /\ returned' = IF check_is_reasonable_raises(caller_kwargs)
                   THEN [call |-> "__init__", status |-> "raised"]
                   ELSE [call |-> "__init__", status |-> "returned",
                         value |-> __init__(caller_kwargs)]
    /\ caller_kwargs' = IF check_is_reasonable_raises(caller_kwargs)
                        THEN caller_kwargs
                        ELSE kwargs_after_init(caller_kwargs)
    /\ pc' = "again"
    /\ UNCHANGED <<pf, bundle, table, hooks, form, cfg_i, lookup, frame>>

ToDict ==
    /\ pc = "built"
    /\ returned.call # "to_dict"
    /\ returned' = [call |-> "to_dict", status |-> "returned", value |-> to_dict(pf)]
    /\ UNCHANGED <<pf, bundle, caller_kwargs, table, hooks, pc, form, cfg_i, lookup, frame>>

\* SqFtProForma(**d) on the dictionary to_dict returned
Rebuild ==
    /\ pc = "built"
    /\ returned.call = "to_dict"
    /\ returned' = IF check_is_reasonable_raises(returned.value)
                   THEN [call |-> "__init__", status |-> "raised"]
                   ELSE [call |-> "__init__", status |-> "returned",
                         value |-> __init__(returned.value)]
    /\ pc' = "rebuilt"
    /\ UNCHANGED <<pf, bundle, caller_kwargs, table, hooks, form, cfg_i, lookup, frame>>

NextConstruct ==
    \/ Construct
    \/ ConstructRaise
    \/ ConstructAgain
    \/ ToDict
    \/ Rebuild

SpecConstruct == InitConstruct /\ [][NextConstruct]_vars

-----------------------------------------------------------------------------
\* Properties of lookup.

\* the rows of the table a finished lookup returned
ReturnedRows ==
    IF returned.call = "lookup" /\ returned.status = "returned"
    THEN Range(returned.value) ELSE {}

\* the sites of the working table of the last pass
FrameSites == 1..Len(frame.df.rows)

PassRan == frame.parking_config # "none"

\* the profit of far candidate i for site j, nan counted as -inf
CandidateProfit(i, j) ==
    LET raw == Sub(frame.cells[i][j].building_revenue,
                   frame.cells[i][j].total_development_cost)
    IN  IF IsNaN(raw) THEN NInf ELSE raw

\* C1: in a pass, the far candidate selected for a site has a profit at least
\* that of every other candidate of the site (nan counted as -inf), and the row
\* the pass returns for the site carries that candidate's far and profit.
C1_SelectedFarIsProfitMaximal ==
    PassRan =>
        /\ \A j \in FrameSites : \A i \in 1..Len(frame.cells) :
              Le(CandidateProfit(i, j), CandidateProfit(frame.maxprofitind[j], j))
        /\ \A r \in Range(frame.outdf) : \A j \in FrameSites :
              frame.df.rows[j].id = r.id =>
                  /\ r.max_profit = CandidateProfit(frame.maxprofitind[j], j)
                  /\ r.max_profit_far = frame.cells[frame.maxprofitind[j]][j].far

\* a pass chose an interior maximum: for one site a candidate that strictly beats
\* a valid lower far, for one site a candidate that strictly beats a valid
\* higher far
C1_Witness ==
    /\ PassRan
    /\ \E j \in FrameSites : \E i \in 1..Len(frame.cells) :
          /\ i < frame.maxprofitind[j]
          /\ IsFinite(CandidateProfit(i, j))
          /\ Lt(CandidateProfit(i, j), CandidateProfit(frame.maxprofitind[j], j))
    /\ \E j \in FrameSites : \E k \in 1..Len(frame.cells) :
          /\ frame.maxprofitind[j] < k
          /\ IsFinite(CandidateProfit(k, j))
          /\ Lt(CandidateProfit(k, j), CandidateProfit(frame.maxprofitind[j], j))

\* C2: a row lookup returns for a site whose max_far and max_height are both
\* present has a far of at most the effective max far plus 0.01 and a height
\* (stories times height_per_story) of at most max_height plus 0.01.
C2_ReturnedRowWithinZoning ==
    \A r \in ReturnedRows : \A j \in FrameSites :
        (/\ frame.df.rows[j].id = r.id
         /\ ~IsNaN(frame.df.rows[j].max_far)
         /\ ~IsNaN(frame.df.rows[j].max_height)) =>
            /\ Le(r.max_profit_far, Add(frame.df.rows[j].min_max_fars, Rat(1, 100)))
            /\ Le(r.max_profit_far, Add(frame.df.rows[j].max_far, Rat(1, 100)))
            /\ Le(Mul(r.stories, pf.height_per_story),
                  Add(frame.df.rows[j].max_height, Rat(1, 100)))

\* lookup returned a row for a site with both caps of which a candidate within
\* the effective max far was masked for its height alone
C2_Witness ==
    \E r \in ReturnedRows : \E j \in FrameSites : \E i \in 1..Len(frame.cells) :
        /\ frame.df.rows[j].id = r.id
        /\ ~IsNaN(frame.df.rows[j].max_far)
        /\ ~IsNaN(frame.df.rows[j].max_height)
        /\ IsNaN(frame.cells[i][j].far)
        /\ Le(pf.fars[i], frame.df.rows[j].min_max_fars)

\* C3: the table lookup returns has at most one row per site; a site is in it
\* exactly when some pass returned a row for it; and its row is the one, among
\* the rows the passes returned for it, with the highest max_profit.
C3_BestParkingConfigPerSite ==
    (returned.call = "lookup" /\ returned.status = "returned") =>
        /\ \A k1, k2 \in 1..Len(returned.value) :
              returned.value[k1].id = returned.value[k2].id => k1 = k2
        /\ {r.id : r \in ReturnedRows} = {l.id : l \in Range(lookup)}
        /\ \A r \in ReturnedRows :
              /\ r \in Range(lookup)
              /\ \A l \in Range(lookup) :
                    l.id = r.id => Le(l.max_profit, r.max_profit)

\* lookup returned a site that survived several passes with different profits,
\* next to a second site
C3_Witness ==
    /\ \E r \in ReturnedRows : \E l \in Range(lookup) :
          l.id = r.id /\ Lt(l.max_profit, r.max_profit)
    /\ \E r1, r2 \in ReturnedRows : r1.id # r2.id

\* C4: lookup never modifies the site table the caller passed.
C4_CallerTableUnchanged == [][table' = table]_vars

\* C5: the reference tables are the ones built at construction, whatever
\* lookup, get_debug_info and get_ave_cost_sqft calls were made.
ReferenceAtConstruction == SqFtProForma(Bundle, FALSE, FALSE).reference_dict

C5_ReferenceUnchanged == pf.reference_dict = ReferenceAtConstruction

\* a lookup that masked a far candidate for some site has returned rows
C5_Witness ==
    /\ ReturnedRows # {}
    /\ \E j \in FrameSites : \E i \in 1..Len(frame.cells) :
          IsNaN(frame.cells[i][j].far) /\ ~IsNaN(frame.dev_info[i].far)

\* the site of the caller's table with the given id
TableSite(id) ==
    CHOOSE row \in Range(table.rows) : row.id = id

\* the caps of a site that enter its effective max far under the given form
FarCaps(row, columns, resratio) ==
    { Mul(Div(row.max_height, pf.height_per_story), pf.parcel_coverage),
      row.max_far }
    \cup
    IF {"max_dua", "ave_unit_size"} \subseteq columns /\ resratio # I(0)
    THEN { Div(Div(Div(Mul(Mul(row.max_dua, Div(row.parcel_size, I(43560))),
                           row.ave_unit_size),
                       pf.building_efficiency),
                   resratio),
               row.parcel_size) }
    ELSE {}

\* v is the minimum of the caps that are present, nan when none is
IsMinOfPresent(v, caps) ==
    IF \A c \in caps : IsNaN(c) THEN IsNaN(v)
    ELSE v \in caps /\ \A c \in caps : IsNaN(c) \/ Le(v, c)

\* C6: the effective max far of a site is the minimum of the far its max_height
\* allows, its max_far and, only when max_dua and ave_unit_size are supplied and
\* the form has a residential share, the far its max_dua allows; a form without
\* residential share is not affected by max_dua.
C6_EffectiveMaxFar ==
    PassRan =>
        \A j \in FrameSites :
            /\ IsMinOfPresent(frame.df.rows[j].min_max_fars,
                              FarCaps(frame.df.rows[j], frame.df.columns,
                                      pf.res_ratios[form]))
            /\ pf.res_ratios[form] = I(0) =>
                  IsMinOfPresent(frame.df.rows[j].min_max_fars,
                                 FarCaps(frame.df.rows[j], {}, I(0)))

\* a pass of a residential form over a table with max_dua and ave_unit_size in
\* which the density cap binds for one site and max_far alone is present for
\* another
C6_Witness ==
    /\ PassRan
    /\ {"max_dua", "ave_unit_size"} \subseteq frame.df.columns
    /\ pf.res_ratios[form] # I(0)
    /\ \E j \in FrameSites :
          /\ Lt(frame.df.rows[j].min_max_fars, frame.df.rows[j].max_far)
          /\ Lt(frame.df.rows[j].min_max_fars, frame.df.rows[j].max_far_from_heights)
    /\ \E j \in FrameSites :
          /\ IsNaN(frame.df.rows[j].max_dua)
          /\ frame.df.rows[j].min_max_fars = frame.df.rows[j].max_far

\* C7: with only_built on every returned row has max_profit > 0; with it off a
\* returned row may have a negative profit, but no row is returned, by a pass or
\* by lookup, for a site all of whose far candidates are invalid.
C7_OnlyBuiltFilter ==
    /\ \A r \in ReturnedRows :
          IF pf.only_built THEN Gt(r.max_profit, I(0))
          ELSE IsFinite(r.max_profit) /\ ~IsNaN(r.max_profit_far)
    /\ PassRan =>
          \A j \in FrameSites :
              (\A i \in 1..Len(frame.cells) : CandidateProfit(i, j) = NInf) =>
                  \A r \in Range(frame.outdf) : r.id # frame.df.rows[j].id

\* with only_built off, lookup returned a row of negative profit and no row for
\* a site of the working table whose candidates are all invalid
C7_Witness ==
    /\ ~pf.only_built
    /\ \E r \in ReturnedRows : Lt(r.max_profit, I(0))
    /\ \E j \in FrameSites :
          /\ \A i \in 1..Len(frame.cells) : CandidateProfit(i, j) = NInf
          /\ \A r \in ReturnedRows : r.id # frame.df.rows[j].id

\* the effective max far of every site of the caller's table under the form
EffectiveMaxFars ==
    _min_max_fars(pf, with_max_far_from_heights(pf, with_weighted_rent(pf, form, table)),
                  pf.res_ratios[form])

\* C8: with only_built on, a site whose effective max far is not positive or
\* whose parcel_size is not positive is never in the table lookup returns.
C8_OnlyBuiltDropsUnbuildable ==
    (pf.only_built /\ ReturnedRows # {}) =>
        \A j \in 1..Len(table.rows) :
            (\/ ~Gt(EffectiveMaxFars[j], I(0))
             \/ ~Gt(table.rows[j].parcel_size, I(0))) =>
                \A r \in ReturnedRows : r.id # table.rows[j].id

\* with only_built on, lookup returned rows for a table that also holds a site
\* whose effective max far is 0 or whose parcel_size is negative
C8_Witness ==
    /\ pf.only_built
    /\ ReturnedRows # {}
    /\ \E j \in 1..Len(table.rows) :
          \/ EffectiveMaxFars[j] = I(0)
          \/ Lt(table.rows[j].parcel_size, I(0))

\* C9: a lookup whose passes all ran and returned no row, the lookup of a table
\* without rows included, returns an empty table and raises nothing.
C9_EmptyResult ==
    (pc = "idle" /\ form # "none" /\ cfg_i > Len(pf.parking_configs)
        /\ lookup = <<>>) =>
            /\ returned.call = "lookup"
            /\ returned.status = "returned"
            /\ returned.value = <<>>

\* a lookup of a table with sites finished without any surviving site
C9_Witness ==
    /\ pc = "idle" /\ form # "none" /\ cfg_i > Len(pf.parking_configs)
    /\ lookup = <<>>
    /\ Len(table.rows) > 0
    /\ returned.status = "returned"

C11_MaxDuaWithoutUnitSizeFails ==
    (/\ returned.call = "lookup"
     /\ ~pf.simple_zoning
     /\ "max_dua" \in table.columns
     /\ "ave_unit_size" \notin table.columns
     /\ Len(table.rows) > 0) =>
        returned.status = "raised"

\* C18: when several far candidates of a site share the maximal finite profit
\* of a pass, the selected one is the first of them in the order of the grid:
\* every candidate before the selected one has a strictly lower profit.
C18_TieGoesToFirstFar ==
    PassRan =>
        \A j \in FrameSites :
            IsFinite(CandidateProfit(frame.maxprofitind[j], j)) =>
                \A i \in 1..(frame.maxprofitind[j] - 1) :
                    Lt(CandidateProfit(i, j),
                       CandidateProfit(frame.maxprofitind[j], j))

\* a pass in which a later candidate of a site ties with the selected one
C18_Witness ==
    /\ PassRan
    /\ \E j \in FrameSites : \E i \in 1..Len(frame.cells) :
          /\ i > frame.maxprofitind[j]
          /\ IsFinite(CandidateProfit(i, j))
          /\ CandidateProfit(i, j) = CandidateProfit(frame.maxprofitind[j], j)

\* the fraction the caller gave a use in a form, 0 for a use the form leaves out
InputFraction(forms, k, use) ==
    IF use \in DOMAIN forms[k] THEN forms[k][use] ELSE I(0)

\* the sum of the fractions the caller gave a form
InputSum(forms, k) ==
    SumSeq([i \in 1..Len(pf.uses) |-> InputFraction(forms, k, pf.uses[i])])

-----------------------------------------------------------------------------
\* Properties of construction.

InRange(lo, v, hi) == Le(lo, v) /\ Le(v, hi)

\* some field of the arguments is outside the range the validation states
OutsideStatedRanges(kw) ==
    \/ \E i \in 1..Len(kw.fars) : ~(Gt(kw.fars[i], I(0)) /\ Le(kw.fars[i], I(20)))
    \/ \E u \in DOMAIN kw.parking_rates :
          ~(Le(I(0), kw.parking_rates[u]) /\ Lt(kw.parking_rates[u], I(5)))
    \/ \E c \in DOMAIN kw.parking_sqft_d : ~InRange(I(50), kw.parking_sqft_d[c], I(1000))
    \/ \E c \in DOMAIN kw.parking_cost_d : ~InRange(I(10), kw.parking_cost_d[c], I(300))
    \/ \E i \in 1..Len(kw.heights_for_costs) :
          /\ IsFinite(kw.heights_for_costs[i])
          /\ ~InRange(I(0), kw.heights_for_costs[i], I(1000))
    \/ \E u \in DOMAIN kw.costs : \E i \in 1..Len(kw.costs[u]) :
          ~(Lt(I(10), kw.costs[u][i]) /\ Lt(kw.costs[u][i], I(1000)))

\* C12: constructing from arguments with a far outside (0, 20], a parking rate
\* outside [0, 5), a parking_sqft_d outside [50, 1000], a parking_cost_d outside
\* [10, 300], a finite height outside [0, 1000] or a cost outside (10, 1000)
\* fails, and no object exists afterwards.
C12_UnreasonableArgumentsRejected ==
    (pc \in {"built", "failed"} /\ OutsideStatedRanges(bundle)) =>
        /\ returned = [call |-> "__init__", status |-> "raised"]
        /\ pf = NoObject

\* the arguments are the defaults but for parking_sqft_d and parking_cost_d,
\* whose values are inside [50, 1000] and [10, 300]
DefaultsWithReasonableParking(kw) ==
    /\ DOMAIN kw = DOMAIN get_defaults
    /\ kw = [get_defaults EXCEPT !.parking_sqft_d = kw.parking_sqft_d,
                                 !.parking_cost_d = kw.parking_cost_d]
    /\ \A c \in DOMAIN kw.parking_sqft_d : InRange(I(50), kw.parking_sqft_d[c], I(1000))
    /\ \A c \in DOMAIN kw.parking_cost_d : InRange(I(10), kw.parking_cost_d[c], I(300))

\* C13: the defaults with any parking_sqft_d in [50, 1000] and any
\* parking_cost_d in [10, 300] are constructed without error.
C13_ReasonableParkingAccepted ==
    (pc \in {"built", "failed"} /\ DefaultsWithReasonableParking(bundle)) =>
        pc = "built"

HooksInOrder ==
    SelectSeq(<<"modify_df", "modify_revenues", "modify_costs", "modify_profits">>,
              LAMBDA name : hooks[name] # "None")

\* the revenue of a cell as the revenue hook of the call leaves it
HookedRevenue(i, j) ==
    LET raw == building_revenue(pf, frame.dev_info[i], frame.df.rows[j],
                                frame.cells[i][j].building_bulk)
    IN  IF hooks.modify_revenues = "halve" THEN Mul(raw, Rat(1, 2)) ELSE raw

\* the cost of a cell as the cost hook of the call leaves it
HookedCost(i, j) ==
    LET raw == Add(Add(frame.cells[i][j].building_cost, frame.df.rows[j].land_cost),
                   frame.cells[i][j].total_financing_cost)
    IN  IF hooks.modify_costs = "add_fee" THEN Add(raw, I(1000)) ELSE raw

\* the profit of a cell as the profit hook of the call returns it
HookedProfit(i, j) ==
    LET received == Sub(HookedRevenue(i, j), HookedCost(i, j))
    IN  nan_to_ninf(IF hooks.modify_profits = "negate" THEN Neg(received)
                    ELSE received)

\* C16: in a pass of lookup the hooks the caller passed are called once each in
\* the order modify_df, modify_revenues, modify_costs, modify_profits; the
\* zoning caps are computed from the table modify_df returned; modify_profits
\* receives the modified revenue minus the modified cost; the far of a site is
\* the first one that maximizes the array modify_profits returned.
C16_HooksInOrder ==
    PassRan =>
        /\ frame.calls = HooksInOrder
        /\ \A j \in FrameSites :
              /\ hooks.modify_df = "cap_far" => frame.df.rows[j].max_far = Rat(1, 2)
              /\ IsMinOfPresent(frame.df.rows[j].min_max_fars,
                                FarCaps(frame.df.rows[j], frame.df.columns,
                                        pf.res_ratios[form]))
              /\ \A i \in 1..Len(frame.cells) :
                    /\ frame.cells[i][j].building_revenue = HookedRevenue(i, j)
                    /\ frame.cells[i][j].total_development_cost = HookedCost(i, j)
                    /\ frame.cells[i][j].profit_received =
                          Sub(HookedRevenue(i, j), HookedCost(i, j))
                    /\ frame.cells[i][j].profit = HookedProfit(i, j)
                    /\ Le(HookedProfit(i, j),
                          HookedProfit(frame.maxprofitind[j], j))
                    /\ i < frame.maxprofitind[j] =>
                          Lt(HookedProfit(i, j),
                             HookedProfit(frame.maxprofitind[j], j))

\* a pass with all four hooks in which the cap of modify_df binds for a site
\* and the far chosen for it is not the one the received profit is highest at
C16_Witness ==
    /\ PassRan
    /\ hooks = [modify_df |-> "cap_far", modify_revenues |-> "halve",
                modify_costs |-> "add_fee", modify_profits |-> "negate"]
    /\ frame.calls = <<"modify_df", "modify_revenues", "modify_costs", "modify_profits">>
    /\ \E j \in FrameSites :
          /\ frame.df.rows[j].min_max_fars = Rat(1, 2)
          /\ Lt(Rat(1, 2), TableSite(frame.df.rows[j].id).max_far)
          /\ \E i \in 1..Len(frame.cells) :
                /\ IsFinite(frame.cells[i][j].profit_received)
                /\ Gt(frame.cells[i][j].profit_received,
                      frame.cells[frame.maxprofitind[j]][j].profit_received)
          /\ \E r \in Range(frame.outdf) : r.id = frame.df.rows[j].id

\* C17: a lookup whose hook returns a value of another shape than the one it
\* received fails and returns no table.
C17_MalformedHookFails ==
    (/\ returned.call = "lookup"
     /\ hooks.modify_df = "drop_last"
     /\ Len(table.rows) > 0) => returned.status = "raised"

\* the table of three sites of the claim
IsThreeSiteTable == Len(table.rows) = 3

\* C19: with the defaults and the three sites of residential rent 30, 20, 10,
\* lookup of the residential form returns one row, that of the rent-30 site,
\* with max_profit_far 1.8, building_sqft 1800, non_residential_sqft 0,
\* residential_sqft = building_sqft * building_efficiency, a positive
\* max_profit, and max_profit_far < stories < 3 * max_profit_far.
C19_ReasonableFeasibilityResults ==
    (/\ returned.call = "lookup" /\ form = "residential" /\ IsThreeSiteTable) =>
        /\ returned.status = "returned"
        /\ Len(returned.value) = 1
        /\ LET first == returned.value[1]
           IN  /\ first.id = 1
               /\ TableSite(first.id).rent[4] = I(30)
               /\ first.max_profit_far = Rat(9, 5)
               /\ first.building_sqft = I(1800)
               /\ first.non_residential_sqft = I(0)
               /\ first.residential_sqft =
                     Mul(first.building_sqft, pf.building_efficiency)
               /\ Gt(first.max_profit, I(0))
               /\ Lt(first.max_profit_far, first.stories)
               /\ Lt(first.stories, Mul(I(3), first.max_profit_far))

\* the residential lookup of the three sites has returned its row
C19_Witness ==
    /\ returned.call = "lookup" /\ returned.status = "returned"
    /\ form = "residential" /\ IsThreeSiteTable
    /\ bundle = get_defaults
    /\ Len(returned.value) = 1
    /\ returned.value[1].parking_config = "surface"

\* the entries of a cost column that are not nan lie in [50, 400]
InAppropriateRange(column) ==
    \A i \in 1..Len(column) :
        IsNaN(column[i]) \/ (Ge(column[i], I(50)) /\ Le(column[i], I(400)))

\* C20: with the defaults, for every form and parking configuration, every
\* entry of ave_cost_sqft of the reference table that is not nan lies in
\* [50, 400], in the table and in what get_ave_cost_sqft returns.
C20_AppropriateRange ==
    /\ \A f \in DOMAIN pf.forms, c \in Range(pf.parking_configs) :
          InAppropriateRange([i \in 1..Len(pf.reference_dict[<<f, c>>]) |->
                                pf.reference_dict[<<f, c>>][i].ave_cost_sqft])
    /\ returned.call = "get_ave_cost_sqft" => InAppropriateRange(returned.value)

\* get_ave_cost_sqft has returned a column with nan and with costs
C20_Witness ==
    /\ bundle = get_defaults
    /\ returned.call = "get_ave_cost_sqft"
    /\ \E i \in 1..Len(returned.value) : IsNaN(returned.value[i])
    /\ \E i \in 1..Len(returned.value) : IsFinite(returned.value[i])

\* C21: with the defaults, in every column get_ave_cost_sqft can return, two
\* adjacent entries of the far grid that are both not nan satisfy
\* left < right * 1.1.
C21_RoughlyMonotonic ==
    \A f \in DOMAIN pf.forms, c \in Range(pf.parking_configs) :
        LET s == [i \in 1..Len(pf.reference_dict[<<f, c>>]) |->
                     pf.reference_dict[<<f, c>>][i].ave_cost_sqft]
        IN  \A i \in 1..(Len(s) - 1) :
                (~IsNaN(s[i]) /\ ~IsNaN(s[i + 1])) =>
                    Lt(s[i], Mul(s[i + 1], Rat(11, 10)))

\* get_ave_cost_sqft has returned a column that rises at one far, stays level
\* at another and has an entry that is nan
C21_Witness ==
    /\ bundle = get_defaults
    /\ returned.call = "get_ave_cost_sqft"
    /\ \E i \in 1..(Len(returned.value) - 1) :
          Lt(returned.value[i], returned.value[i + 1])
    /\ \E i \in 1..(Len(returned.value) - 1) :
          IsFinite(returned.value[i]) /\ returned.value[i] = returned.value[i + 1]
    /\ \E i \in 1..Len(returned.value) : IsNaN(returned.value[i])

\* a density cap enters the effective max far of the pass
DensityCapApplies == "max_dua" \in table.columns /\ Gt(pf.res_ratios[form], I(0))

\* C22: a site with one of max_far and max_height missing is capped by the
\* other one alone, and a site with both missing, when no density cap applies,
\* is in no lookup result, with only_built on or off.
C22_MissingZoningCaps ==
    (~pf.simple_zoning /\ form # "none" /\ ~DensityCapApplies) =>
        /\ PassRan =>
              \A j \in FrameSites :
                 LET row == frame.df.rows[j]
                 IN  /\ (IsNaN(row.max_far) /\ ~IsNaN(row.max_height)) =>
                            row.min_max_fars = row.max_far_from_heights
                     /\ (~IsNaN(row.max_far) /\ IsNaN(row.max_height)) =>
                            row.min_max_fars = row.max_far
        /\ returned.call = "lookup" =>
              \A k \in 1..Len(table.rows) :
                  (IsNaN(table.rows[k].max_far) /\ IsNaN(table.rows[k].max_height)) =>
                      /\ returned.status = "returned"
                      /\ \A r \in Range(returned.value) : r.id # table.rows[k].id

\* the rows of all passes of a lookup, in the order of parking_configs
RECURSIVE PassRows(_, _, _, _, _)
PassRows(self, f, t, h, n) ==
    IF n = 0 THEN <<>>
    ELSE PassRows(self, f, t, h, n - 1)
         \o _lookup_parking_cfg(self, f, self.parking_configs[n], t, h).outdf

\* what lookup(f, t) on the object self returns when nothing else runs
LookupAlone(self, f, t, h) ==
    LET df == IF self.simple_zoning THEN _simple_zoning(f, t) ELSE t
    IN  IF _min_max_fars_raises(df, self.res_ratios[f])
        THEN [call |-> "lookup", status |-> "raised"]
        ELSE lookup_return(self, PassRows(self, f, df, h, Len(self.parking_configs)))

\* the columns of a result the claim compares
ComparedColumns(result) ==
    IF result.status # "returned" THEN result
    ELSE [result EXCEPT !.value = [k \in 1..Len(result.value) |->
            [ id |-> result.value[k].id,
              max_profit_far |-> result.value[k].max_profit_far,
              building_cost |-> result.value[k].building_cost,
              financing_cost |-> result.value[k].financing_cost,
              construction_time |-> result.value[k].construction_time,
              max_profit |-> result.value[k].max_profit ]]]

\* C23: the value of parcel_sizes cancels: a lookup returns the same sites with
\* the same max_profit_far, building_cost, financing_cost, construction_time and
\* max_profit as the lookup of an object that differs only in parcel_sizes.
C23_ParcelSizeCancels ==
    returned.call = "lookup" =>
        \A p \in ParcelSizes :
            ComparedColumns(returned) =
                ComparedColumns(LookupAlone(__init__(With(bundle, [parcel_sizes |-> <<p>>])),
                                            form, table, hooks))

\* the table as the callers passed it: simple zoning only writes nan into the
\* rows of a site of the pool and adds the max_dua column
PassedTable ==
    [columns |-> IF "ave_unit_size" \in table.columns THEN table.columns ELSE {},
     rows |-> [k \in 1..Len(table.rows) |-> SitePool[table.rows[k].id]]]

\* C24: each of two concurrent lookup calls on the same object, whose callers
\* leave the table alone, returns what it returns when it runs alone, in every
\* interleaving and every option setting.
C24_ConcurrentLookups ==
    \A t \in Threads :
        returned[t].call = "lookup" =>
            returned[t] = LookupAlone(pf, form[t], PassedTable, NoHooks)

\* the far the density cap of a row allows, when the table has its columns
DensityCaps(row, columns, resratio) ==
    IF {"max_dua", "ave_unit_size"} \subseteq columns
    THEN {max_far_from_dua(pf, row, resratio)}
    ELSE {}

\* C25: in simple-zoning mode the residential form is capped by the density
\* cap alone; every other form, mixed forms included, is capped by max_far
\* alone, its effective max far is the site's max_far, and its lookup
\* succeeds on a table without max_dua and ave_unit_size columns.
C25_SimpleZoning ==
    (pf.simple_zoning /\ form # "none") =>
        /\ PassRan =>
              \A j \in FrameSites :
                 LET row == frame.df.rows[j]
                 IN  /\ form = "residential" =>
                            IsMinOfPresent(row.min_max_fars,
                                DensityCaps(row, frame.df.columns,
                                            pf.res_ratios[form]))
                     /\ form # "residential" => row.min_max_fars = row.max_far
                     /\ \A i \in 1..Len(frame.cells) :
                            IsNaN(frame.cells[i][j].far) <=>
                                Gt(frame.dev_info[i].far,
                                   Add(row.min_max_fars, Rat(1, 100)))
        /\ (/\ returned.call = "lookup"
            /\ form # "residential"
            /\ Len(table.rows) > 0
            /\ "ave_unit_size" \notin table.columns) => returned.status = "returned"

\* the stories _stories computes for the entries of a reference table
StoriesBeforeRounding(f, c) ==
    LET ref == pf.reference_dict[<<f, c>>]
    IN  _stories(pf, c, [i \in 1..Len(ref) |-> ref[i].building_sqft],
                 [i \in 1..Len(ref) |-> ref[i].spaces])

\* the footprint-basis stories the claim gives for an entry
FootprintStories(row, c) ==
    CASE c = "underground" -> Div(row.building_sqft, row.pclsz)
      [] c = "deck" ->
           Div(Add(row.building_sqft, Mul(row.spaces, pf.parking_sqft_d["deck"])),
               row.pclsz)
      [] c = "surface" ->
           Div(row.building_sqft,
               Sub(row.pclsz, Mul(row.spaces, pf.parking_sqft_d["surface"])))

\* an object exists
Built == pc \in {"built", "rebuilt"} /\ pf # NoObject

C27_CostBracketOfHeight ==
    Built =>
        \A f \in DOMAIN pf.forms, c \in Range(pf.parking_configs) :
            LET ref == pf.reference_dict[<<f, c>>]
            IN  \A i \in 1..Len(ref) :
                    /\ ref[i].height = Mul(ref[i].stories, pf.height_per_story)
                    /\ ref[i].build_cost_sqft =
                          IF IsNaN(ref[i].stories) THEN NaN
                          ELSE Dot(pf.costs[SearchSorted(pf.heights_for_costs,
                                                         ref[i].height) + 1],
                                   pf.forms[f])

\* the far of every row of a returned result is at most cap
RowsWithin(cap) ==
    \A k \in 1..Len(returned.value) : Le(returned.value[k].max_profit_far, cap)

\* C28: a lookup without hooks of the form named retail returns no row with
\* max_profit_far above max_retail_height, and one of the form named
\* industrial no row above max_industrial_height, the reference entries above
\* those heights having no ave_cost_sqft; a form of another name has an
\* ave_cost_sqft in every entry that has stories.
C28_NamedFormsCapped ==
    /\ \A c \in Range(pf.parking_configs) :
          \A f \in DOMAIN pf.forms :
              LET ref == pf.reference_dict[<<f, c>>]
              IN  \A i \in 1..Len(ref) :
                     CASE f = "retail" ->
                            Gt(ref[i].far, pf.max_retail_height)
                                => IsNaN(ref[i].ave_cost_sqft)
                       [] f = "industrial" ->
                            Gt(ref[i].far, pf.max_industrial_height)
                                => IsNaN(ref[i].ave_cost_sqft)
                       [] OTHER ->
                            IsNaN(ref[i].ave_cost_sqft) <=> IsNaN(ref[i].stories)
    /\ (returned.call = "lookup" /\ returned.status = "returned" /\ hooks = NoHooks) =>
          /\ form = "retail" => RowsWithin(pf.max_retail_height)
          /\ form = "industrial" => RowsWithin(pf.max_industrial_height)

\* a retail lookup has returned a site built at max_retail_height, below the
\* max_far of the site
C28_Witness ==
    /\ returned.call = "lookup" /\ returned.status = "returned" /\ hooks = NoHooks
    /\ form = "retail"
    /\ \E k \in 1..Len(returned.value) :
          /\ returned.value[k].max_profit_far = pf.max_retail_height
          /\ Lt(pf.max_retail_height, TableSite(returned.value[k].id).max_far)

\* C29: in every entry of a reference table of deck parking total_built_sqft
\* is the parcel size times the far, the stories before rounding are the far
\* over parcel_coverage, and parking_sqft_ratio is that of the first entry.
C29_DeckFillsFar ==
    Built =>
        \A f \in DOMAIN pf.forms :
            LET ref == pf.reference_dict[<<f, "deck">>]
                stories == StoriesBeforeRounding(f, "deck")
            IN  \A i \in 1..Len(ref) :
                    /\ ref[i].total_built_sqft = Mul(ref[i].pclsz, ref[i].far)
                    /\ stories[i] = Div(ref[i].far, pf.parcel_coverage)
                    /\ ref[i].stories = Ceil(Div(ref[i].far, pf.parcel_coverage))
                    /\ ref[i].parking_sqft_ratio = ref[1].parking_sqft_ratio

\* a deck table whose entries hold parking, under a building smaller than the
\* parcel size times the far, at two fars or more
C29_Witness ==
    /\ Built
    /\ \E f \in DOMAIN pf.forms :
          LET ref == pf.reference_dict[<<f, "deck">>]
          IN  /\ Len(ref) >= 2
              /\ \A i \in 1..Len(ref) :
                    /\ Gt(ref[i].parking_sqft_ratio, I(0))
                    /\ Gt(ref[i].park_sqft, I(0))
                    /\ Lt(ref[i].building_sqft, Mul(ref[i].pclsz, ref[i].far))

\* C30: constructing an object leaves the dictionary of the caller as it was
\* passed, every form still a dictionary from uses to fractions, and a second
\* object constructed from the same dictionary has the reference tables of
\* the first.
C30_BundleUnchanged ==
    /\ pf # NoObject =>
          /\ \A k \in DOMAIN caller_kwargs.forms : isinstance_dict(caller_kwargs.forms[k])
          /\ caller_kwargs = bundle
    /\ pc = "again" =>
          /\ returned.status = "returned"
          /\ returned.value.reference_dict = pf.reference_dict

====
